---- MODULE Spec2Model ----
(***************************************************************************)
(* Model of the SPC3 single-photon camera stack of qudi-iqo-modules:       *)
(*   SPC3        (hardware/camera/SPC3/spc.py)       ctypes wrapper        *)
(*   SPC3_Qudi   (hardware/camera/SPC3/spc3_qudi.py) acquisition modes     *)
(*   CameraLogic (logic/camera_logic_SPC3.py)        module state, timers  *)
(*                                                                         *)
(* Times are counted in units of 10 ns (the source multiplies a cycle      *)
(* count by 10e-9 s), so exposure = NIntegFrames * cycles is an integer.   *)
(* The native library is outside the repository: every status code it      *)
(* returns is an input of the handler that receives it.                    *)
(***************************************************************************)
EXTENDS Integers, Sequences, FiniteSets, TLC

VARIABLES
    cam,      \* the SPC3_Qudi instance: its attributes
    spc3,     \* the SPC3 wrapper object held in SPC3_Qudi.spc3
    dev,      \* the native library side: calls of the running operation, open files
    active,   \* whether SPC3_Qudi is activated (on_activate done, on_deactivate not)
    last,     \* the operation that ran last, its outcome and the modes it started from
    logic,    \* the CameraLogic instance: module_state, timers, cached exposure
    thr,      \* per thread: the CameraLogic method it runs and its position in it
    lock,     \* CameraLogic._thread_lock: owner and recursion depth
    io        \* the buffer or file handed to the decoding functions, their result, the loaded file

vars == <<cam, spc3, dev, active, last, logic, thr, lock, io>>

----------------------------------------------------------------------------
(* Bounds of the model *)

MaxArg == 1        \* requested exposures / binnings / integrations go up to MaxArg units
MaxFrames == 2     \* configured and requested snap frame counts go up to MaxFrames
MaxOpen == 2       \* continuous starts without a stop that the model follows
MaxBytes == 1      \* total_bytes the model follows
MaxCount == 2      \* counts per pixel of a live frame go up to MaxCount

(* Program constants *)

HardwareIntegration_Normal == 1040
MIN_HARDWARE_INTEGRATION == 1
MAX_HARDWARE_INTEGRATION == 65534
MIN_INTEG_FRAMES == 1
MAX_INTEG_FRAMES == 65534
default_hardware_integration == 5200
COMMUNICATION_ERROR == -5
SPC3_MEMORY_FULL == -18

Status == {0, COMMUNICATION_ERROR}
PollStatus == {0, COMMUNICATION_ERROR, SPC3_MEMORY_FULL}

Min(a, b) == IF a < b THEN a ELSE b
Max(a, b) == IF a > b THEN a ELSE b

----------------------------------------------------------------------------
(* Outcomes of a handler: it returns a value or raises *)

Ret(w, val) == [w |-> w, kind |-> "return", val |-> val, num |-> 0]
RetNum(w, n) == [w |-> w, kind |-> "return", val |-> "int", num |-> n]
Raise(w, ec) == [w |-> w, kind |-> "raise", val |-> "SPC3Error", num |-> ec]

----------------------------------------------------------------------------
(* SPC3: the ctypes wrapper.  Each wrapper calls the library, then _checkError *)

checkError_ignoring(ec) == FALSE

\* SPC3._checkError: TRUE when SPC3Error is raised
checkError(ec) == ec # 0

\* the library call itself: recorded, with what it does to the device
Sdk(w, call, ec, n) ==
    LET d  == w.dev
        d1 == [d EXCEPT !.log = Append(@, [call |-> call, ec |-> ec, n |-> n])]
        d2 == IF ec # 0 THEN d1
              ELSE CASE call = "ContAcqToFileStart" -> [d1 EXCEPT !.contOpen = @ + 1]
                     [] call = "ContAcqToFileStop"  -> [d1 EXCEPT !.contOpen = Max(@ - 1, 0)]
                     [] call = "Constr"             -> [d1 EXCEPT !.destroyed = FALSE,
                                                                 !.contOpen = 0]
                     [] call = "Destr"              -> [d1 EXCEPT !.destroyed = TRUE]
                     [] OTHER -> d1
    IN [w EXCEPT !.dev = d2]

Wrapped(w, call, ec) ==
    [w |-> Sdk(w, call, ec, 1), raised |-> checkError(ec), err |-> ec]

Constr(w, ec) ==
    LET r == Wrapped(w, "Constr", ec)
    IN IF r.raised THEN r
       ELSE [r EXCEPT !.w.spc3 = [snap_num_frames |-> 0, data_bits |-> 0,
                                  num_counters |-> 1, data_is_signed |-> FALSE,
                                  num_pixels |-> 0]]

Destr(w, ec) == Wrapped(w, "Destr", ec)
LiveSetModeON(w, ec) == Wrapped(w, "LiveSetModeON", ec)
LiveSetModeOFF(w, ec) == Wrapped(w, "LiveSetModeOFF", ec)
SnapPrepare(w, ec) == Wrapped(w, "SnapPrepare", ec)
SnapAcquire(w, ec) == Wrapped(w, "SnapAcquire", ec)
SnapGetImageBuffer(w, ec) == Wrapped(w, "SnapGetImageBuffer", ec)
ContAcqToFileStart(w, ec) == Wrapped(w, "ContAcqToFileStart", ec)
ContAcqToFileStop(w, ec) == Wrapped(w, "ContAcqToFileStop", ec)
ContAcqToFileGetMemory(w, ec) == Wrapped(w, "ContAcqToFileGetMemory", ec)

\* n consecutive LiveGetImg calls, the last of which returns ec (the others 0)
LiveGetImgTimes(w, n, ec) ==
    [w |-> Sdk(w, "LiveGetImg", ec, n), raised |-> checkError(ec), err |-> ec]

LiveGetImg(w, ec) == LiveGetImgTimes(w, 1, ec)

\* Exposure, NIntegFrames and NCounters pass through c_uint16; NFrames through
\* c_uint32, which changes no value below 2^31
SetCameraPar(w, Exposure, NFrames, NIntegFrames, NCounters, Force8bit, Half_array, Signed_data, ec) ==
    LET sent == [Exposure |-> Exposure % 65536, NFrames |-> NFrames,
                 NIntegFrames |-> NIntegFrames % 65536]
        r == Wrapped([w EXCEPT !.dev.sent = sent], "SetCameraPar", ec)
    IN IF r.raised THEN r
       ELSE [r EXCEPT
               !.w.dev.par = [Exposure |-> Exposure % 65536,
                              NFrames |-> NFrames,
                              NIntegFrames |-> NIntegFrames % 65536],
               !.w.dev.pending = TRUE,
               !.w.spc3.snap_num_frames = NFrames,
               !.w.spc3.num_counters = NCounters % 65536,
               !.w.spc3.data_is_signed = (Signed_data # 0),
               !.w.spc3.num_pixels = IF Half_array # 0 THEN 1024 ELSE 2048]

\* ApplySettings calls SPC3_Apply_settings, then Is16Bit to record the depth
ApplySettings(w, ec, ec16, is16) ==
    LET r == Wrapped(w, "ApplySettings", ec)
    IN IF r.raised THEN r
       ELSE LET q == Wrapped([r.w EXCEPT !.dev.pending = FALSE], "Is16Bit", ec16)
            IN IF q.raised THEN q
               ELSE [q EXCEPT !.w.spc3.data_bits = IF is16 THEN 16 ELSE 8]

----------------------------------------------------------------------------
(* SPC3_Qudi: the hardware module *)

\* int(round(a / b)) for a >= 0, b > 0: Python rounds halves to the even integer
RoundDiv(a, b) ==
    LET q == a \div b
        r == a % b
    IN IF 2 * r < b THEN q
       ELSE IF 2 * r > b THEN q + 1
       ELSE IF q % 2 = 0 THEN q ELSE q + 1

\* a time of n * c units of 10 ns (n, c < 2^16), kept as two base-65536 digits:
\* the product of two 16-bit counts does not fit TLC's 32-bit integers
Ticks(n, c) ==
    LET x  == n * (c \div 256)
        y  == n * (c % 256)
        lo == (x % 256) * 256 + y
    IN [hi |-> (x \div 256) + (lo \div 65536), lo |-> lo % 65536]

\* a time of x units of 10 ns, 0 <= x < 2^31, in the same form
FromInt(x) == [hi |-> x \div 65536, lo |-> x % 65536]

\* int(round(t / h)) for a time t in that form and 0 < h < 2^16, by long division
\* in base 256.  A quotient of 2^16 or more is returned as 2^16: the callers
\* clamp the result to at most 65534 and compare it with the clamped value only
RoundDivT(t, h) ==
    IF t.hi >= h THEN 65536
    ELSE LET r1 == t.hi * 256 + (t.lo \div 256)
             r0 == (r1 % h) * 256 + (t.lo % 256)
             q  == (r1 \div h) * 256 + (r0 \div h)
             r  == r0 % h
         IN IF 2 * r < h THEN q
            ELSE IF 2 * r > h THEN q + 1
            ELSE IF q % 2 = 0 THEN q ELSE q + 1

\* cycles of one hardware integration in the active camera mode
hardware_time(c) ==
    IF c.camera_mode = "Advanced" THEN c.HardwareIntegration
    ELSE HardwareIntegration_Normal

\* the SetCameraPar + ApplySettings pair every setter ends with
WriteAndApply(w, Exposure, ecs) ==
    LET c == w.cam
        r == SetCameraPar(w, Exposure, c.NFrames, c.NIntegFrames, c.NCounters,
                          c.Force8bit, c.Half_array, c.Signed_data, ecs.par)
    IN IF r.raised THEN r ELSE ApplySettings(r.w, ecs.apply, ecs.is16ec, ecs.is16)

on_activate(w, ecC, ecs) ==
    LET r0 == Constr(w, ecC)
    IN IF r0.raised THEN Raise(r0.w, r0.err)
       ELSE LET r == WriteAndApply(r0.w, hardware_time(w.cam), ecs)
            IN IF r.raised THEN Raise(r.w, r.err)
               ELSE Ret([r.w EXCEPT !.cam.Ncols = w.cam.Ncols \div (2 ^ w.cam.Half_array),
                                    !.cam.exposure =
                            Ticks(w.cam.NIntegFrames, hardware_time(w.cam))], "None")

apply_camera_settings(w, ecs) ==
    LET r == WriteAndApply(w, hardware_time(w.cam), ecs)
    IN IF r.raised THEN Raise(r.w, r.err) ELSE Ret(r.w, "None")

on_deactivate(w, ecOff, ecStop, ecD) ==
    LET r1 == IF w.cam.live THEN LiveSetModeOFF(w, ecOff)
              ELSE [w |-> w, raised |-> FALSE, err |-> 0]
    IN IF r1.raised THEN Raise(r1.w, r1.err)
       ELSE LET w1 == [r1.w EXCEPT !.cam.live = FALSE, !.cam.acquiring = FALSE]
                r2 == IF w1.cam.continuous
                      THEN ContAcqToFileStop([w1 EXCEPT !.cam.continuous = FALSE], ecStop)
                      ELSE [w |-> w1, raised |-> FALSE, err |-> 0]
            IN IF r2.raised THEN Raise(r2.w, r2.err)
               ELSE LET r3 == Destr(r2.w, ecD)
                    IN IF r3.raised THEN Raise(r3.w, r3.err) ELSE Ret(r3.w, "None")

start_live_acquisition(w, ec) ==
    LET w1 == [w EXCEPT !.cam.live = TRUE, !.cam.acquiring = FALSE]
        r  == LiveSetModeON(w1, ec)
    IN IF r.raised THEN Raise(r.w, r.err) ELSE Ret(r.w, "True")

start_single_acquisition_unguarded(w, e1, e2, e3) ==
    LET r1 == SnapPrepare([w EXCEPT !.cam.acquiring = TRUE], e1)
        r2 == SnapAcquire(r1.w, e2)
        r3 == SnapGetImageBuffer(r2.w, e3)
        fin == IF r1.raised THEN r1 ELSE IF r2.raised THEN r2 ELSE r3
    IN Ret([fin.w EXCEPT !.cam.acquiring = FALSE],
           IF fin.raised THEN "None" ELSE "frames")

start_single_acquisition_unordered(w, e1, e2, e3) ==
    IF w.cam.live THEN Ret(w, "None")
    ELSE LET r1 == SnapPrepare([w EXCEPT !.cam.acquiring = TRUE], e1)
             r2 == SnapAcquire(r1.w, e2)
             r3 == SnapGetImageBuffer(r2.w, e3)
         IN Ret([r3.w EXCEPT !.cam.acquiring = FALSE],
                IF r1.raised \/ r2.raised \/ r3.raised THEN "None" ELSE "frames")

start_single_acquisition(w, e1, e2, e3) ==
    IF w.cam.live THEN Ret(w, "None")
    ELSE LET r1 == SnapPrepare([w EXCEPT !.cam.acquiring = TRUE], e1)
             r2 == SnapAcquire(r1.w, e2)
             r3 == SnapGetImageBuffer(r2.w, e3)
             fin == IF r1.raised THEN r1 ELSE IF r2.raised THEN r2 ELSE r3
         IN Ret([fin.w EXCEPT !.cam.acquiring = FALSE],
                IF fin.raised THEN "None" ELSE "frames")

continuous_acquisition(w, ec) ==
    IF w.cam.live \/ w.cam.acquiring THEN Ret(w, "False")
    ELSE LET r == ContAcqToFileStart([w EXCEPT !.cam.continuous = TRUE], ec)
         IN IF r.raised THEN Raise(r.w, r.err) ELSE Ret(r.w, "True")

stop_continuous_acquisition(w, ec) ==
    IF w.cam.continuous
    THEN LET r == ContAcqToFileStop(w, ec)
         IN IF r.raised THEN Raise(r.w, r.err)
            ELSE Ret([r.w EXCEPT !.cam.continuous = FALSE], "True")
    ELSE Ret(w, "True")

get_continuous_memory(w, ec, bytes) ==
    IF w.cam.continuous
    THEN LET r == ContAcqToFileGetMemory(w, ec)
         IN IF r.raised THEN Raise(r.w, r.err) ELSE RetNum(r.w, bytes)
    ELSE RetNum(w, 0)

stop_acquisition_always_off(w, ec) ==
    LET r == LiveSetModeOFF(w, ec)
    IN IF r.raised THEN Raise(r.w, r.err)
       ELSE Ret([r.w EXCEPT !.cam.live = FALSE, !.cam.acquiring = FALSE], "None")

stop_acquisition(w, ec) ==
    LET r == IF w.cam.live THEN LiveSetModeOFF(w, ec)
             ELSE [w |-> w, raised |-> FALSE, err |-> 0]
    IN IF r.raised THEN Raise(r.w, r.err)
       ELSE Ret([r.w EXCEPT !.cam.live = FALSE, !.cam.acquiring = FALSE], "None")

\* number of pixels of a frame: _Nrows * _Ncols, scaled down
FramePixels == 2

\* no background image; no frame delivered or returned in this operation
NoImage == <<>>

NoFrame == [ndim |-> 0, px |-> <<>>, units |-> "none", per |-> FromInt(0)]

\* an array of counts, as get_acquired_data returns it
Counts(ndim, px) == [ndim |-> ndim, px |-> px, units |-> "counts", per |-> FromInt(0)]

\* a time in the two-digit form as a number of 10 ns units (below 2^31)
ToInt(t) == t.hi * 65536 + t.lo

\* x counts over a time of t units of 10e-9 s, cast to the integer type of the
\* frame: the cast truncates.  The quotients followed stay below 2^16.
CountsPerSecond(x, t) == (x * 100000000) \div ToInt(t)

\* the end of get_acquired_data: scaling to counts per second, by
\* _HardwareIntegration * 10e-9 * _NIntegFrames in either camera mode, and the
\* reshape of a 1-d frame.  per records the time the counts were divided by.
ScaledAndShaped(c, frame) ==
    LET exposure_time == Ticks(c.NIntegFrames, c.HardwareIntegration)
        scaled == IF c.display_units = "cps"
                  THEN [frame EXCEPT !.units = "cps",
                                     !.per = exposure_time,
                                     !.px = [i \in 1 .. Len(frame.px) |->
                                                CountsPerSecond(frame.px[i], exposure_time)]]
                  ELSE frame
    IN IF scaled.ndim = 1 THEN [scaled EXCEPT !.ndim = 2] ELSE scaled

\* get_acquired_data subtracting in the unsigned 16-bit type of the frame
get_acquired_data_wrapping(w, ec, data) ==
    LET c == w.cam
        r == IF c.live THEN LiveGetImg(w, ec) ELSE [w |-> w, raised |-> FALSE, err |-> 0]
    IN IF r.raised THEN Raise(r.w, r.err)
       ELSE LET w1 == IF c.live THEN [r.w EXCEPT !.dev.delivered = data] ELSE r.w
                counter1_frame == IF c.live THEN Counts(2, data) ELSE Counts(0, <<0>>)
                subtracted_flat ==
                    [i \in 1 .. Len(counter1_frame.px) |->
                        (counter1_frame.px[i] - c.background_image[i]) % 65536]
                out == IF c.background_subtraction_enabled
                       THEN IF c.background_image = NoImage THEN counter1_frame
                            ELSE IF Len(c.background_image) # Len(counter1_frame.px)
                                 THEN counter1_frame
                                 ELSE ScaledAndShaped(c, [counter1_frame EXCEPT !.px = subtracted_flat])
                       ELSE ScaledAndShaped(c, counter1_frame)
            IN Ret([w1 EXCEPT !.dev.image = out], "frame")

\* get_acquired_data; data is counter 1 of the image LiveGetImg delivers. The
\* delivered and the returned frame are kept in dev.delivered and dev.image.
get_acquired_data(w, ec, data) ==
    LET c == w.cam
        r == IF c.live THEN LiveGetImg(w, ec) ELSE [w |-> w, raised |-> FALSE, err |-> 0]
    IN IF r.raised THEN Raise(r.w, r.err)
       ELSE LET w1 == IF c.live THEN [r.w EXCEPT !.dev.delivered = data] ELSE r.w
                counter1_frame == IF c.live THEN Counts(2, data) ELSE Counts(0, <<0>>)
                subtracted_flat ==
                    [i \in 1 .. Len(counter1_frame.px) |->
                        Max(counter1_frame.px[i] - c.background_image[i], 0)]
                out == IF c.background_subtraction_enabled
                       THEN IF c.background_image = NoImage THEN counter1_frame
                            ELSE IF Len(c.background_image) # Len(counter1_frame.px)
                                 THEN counter1_frame
                                 ELSE ScaledAndShaped(c, [counter1_frame EXCEPT !.px = subtracted_flat])
                       ELSE ScaledAndShaped(c, counter1_frame)
            IN Ret([w1 EXCEPT !.dev.image = out], "frame")

\* int(t / h): the quotient cut off instead of rounded
TruncDivT(t, h) ==
    IF t.hi >= h THEN 65536
    ELSE LET r1 == t.hi * 256 + (t.lo \div 256)
             r0 == (r1 % h) * 256 + (t.lo % 256)
         IN (r1 \div h) * 256 + (r0 \div h)

set_exposure_truncating(w, exposure, ecs) ==
    LET rounded == TruncDivT(exposure, hardware_time(w.cam))
        n_integ_frames == Max(MIN_INTEG_FRAMES, Min(rounded, MAX_INTEG_FRAMES))
        w1 == [w EXCEPT !.cam.NIntegFrames = n_integ_frames,
                        !.cam.exposure = Ticks(n_integ_frames, hardware_time(w.cam)),
                        !.dev.warned = (n_integ_frames # rounded),
                        !.dev.arg = exposure]
        r  == WriteAndApply(w1, hardware_time(w1.cam), ecs)
    IN IF r.raised THEN Raise(r.w, r.err) ELSE Ret(r.w, "True")

set_exposure(w, exposure, ecs) ==
    LET rounded == RoundDivT(exposure, hardware_time(w.cam))
        n_integ_frames == Max(MIN_INTEG_FRAMES, Min(rounded, MAX_INTEG_FRAMES))
        w1 == [w EXCEPT !.cam.NIntegFrames = n_integ_frames,
                        !.cam.exposure = Ticks(n_integ_frames, hardware_time(w.cam)),
                        !.dev.warned = (n_integ_frames # rounded),
                        !.dev.arg = exposure]
        r  == WriteAndApply(w1, hardware_time(w1.cam), ecs)
    IN IF r.raised THEN Raise(r.w, r.err) ELSE Ret(r.w, "True")

get_exposure_normal_time(w) ==
    Ret([w EXCEPT !.cam.exposure = Ticks(w.cam.NIntegFrames, HardwareIntegration_Normal)],
        "float")

get_exposure(w) ==
    Ret([w EXCEPT !.cam.exposure = Ticks(w.cam.NIntegFrames, hardware_time(w.cam))],
        "float")

set_hardware_integration_any_mode(w, integration_ns, ecs) ==
    LET integration_cycles ==
            Max(MIN_HARDWARE_INTEGRATION,
                Min(RoundDiv(integration_ns, 10), MAX_HARDWARE_INTEGRATION))
        w1 == [w EXCEPT !.cam.HardwareIntegration = integration_cycles,
                        !.cam.exposure = Ticks(w.cam.NIntegFrames, integration_cycles),
                        !.dev.arg = FromInt(integration_ns)]
        r  == WriteAndApply(w1, integration_cycles, ecs)
    IN IF r.raised THEN Raise(r.w, r.err) ELSE Ret(r.w, "True")

\* integration_ns is the requested time in ns (integration_seconds * 1e9)
set_hardware_integration(w, integration_ns, ecs) ==
    IF w.cam.camera_mode # "Advanced"
    THEN Ret([w EXCEPT !.dev.warned = TRUE, !.dev.arg = FromInt(integration_ns)], "False")
    ELSE LET integration_cycles ==
                 Max(MIN_HARDWARE_INTEGRATION,
                     Min(RoundDiv(integration_ns, 10), MAX_HARDWARE_INTEGRATION))
             w1 == [w EXCEPT !.cam.HardwareIntegration = integration_cycles,
                             !.cam.exposure = Ticks(w.cam.NIntegFrames, integration_cycles),
                             !.dev.arg = FromInt(integration_ns)]
             r  == WriteAndApply(w1, integration_cycles, ecs)
         IN IF r.raised THEN Raise(r.w, r.err) ELSE Ret(r.w, "True")

set_binning_stale_exposure(w, binning, ecs) ==
    LET b  == Max(MIN_INTEG_FRAMES, Min(binning, MAX_INTEG_FRAMES))
        w1 == [w EXCEPT !.cam.NIntegFrames = b, !.dev.arg = FromInt(binning)]
        r  == WriteAndApply(w1, hardware_time(w1.cam), ecs)
    IN IF r.raised THEN Raise(r.w, r.err) ELSE Ret(r.w, "True")

set_binning_unclamped(w, binning, ecs) ==
    LET w1 == [w EXCEPT !.cam.NIntegFrames = binning,
                        !.cam.exposure = Ticks(binning, hardware_time(w.cam)),
                        !.dev.arg = FromInt(binning)]
        r  == WriteAndApply(w1, hardware_time(w1.cam), ecs)
    IN IF r.raised THEN Raise(r.w, r.err) ELSE Ret(r.w, "True")

set_binning(w, binning, ecs) ==
    LET b  == Max(MIN_INTEG_FRAMES, Min(binning, MAX_INTEG_FRAMES))
        w1 == [w EXCEPT !.cam.NIntegFrames = b,
                        !.cam.exposure = Ticks(b, hardware_time(w.cam)),
                        !.dev.arg = FromInt(binning)]
        r  == WriteAndApply(w1, hardware_time(w1.cam), ecs)
    IN IF r.raised THEN Raise(r.w, r.err) ELSE Ret(r.w, "True")

\* fail = 0: every LiveGetImg succeeds; fail = k: the k-th one returns ecImg # 0
\* imgs: counter 1 of the images the LiveGetImg calls deliver when none fails
capture_background_image(w, ecOn, fail, ecImg, ecOff, imgs) ==
    LET was_live == w.cam.live
        r1 == IF was_live THEN Ret(w, "True") ELSE start_live_acquisition(w, ecOn)
    IN IF r1.kind = "raise" THEN Ret(r1.w, "False")
       ELSE LET n  == r1.w.cam.NFrames
                r2 == IF fail = 0 THEN LiveGetImgTimes(r1.w, n, 0)
                      ELSE LiveGetImgTimes(r1.w, fail, ecImg)
            IN IF r2.raised THEN Ret(r2.w, "False")
               ELSE LET r3 == IF was_live THEN Ret(r2.w, "None")
                              ELSE stop_acquisition(r2.w, ecOff)
                    IN IF r3.kind = "raise" THEN Ret(r3.w, "False")
                       ELSE LET RECURSIVE total(_, _)
                                    total(i, k) == IF k = 0 THEN 0 ELSE imgs[k][i] + total(i, k - 1)
                                    background_2d == [i \in 1 .. FramePixels |-> total(i, n) \div n]
                            IN Ret([r3.w EXCEPT !.cam.background_image = background_2d,
                                                !.dev.captured = imgs], "True")

\* an enable that does not ask for a reference
enable_background_subtraction_unguarded(w) ==
    Ret([w EXCEPT !.cam.background_subtraction_enabled = TRUE], "True")

enable_background_subtraction(w) ==
    IF w.cam.background_image = NoImage
    THEN Ret(w, "False")
    ELSE Ret([w EXCEPT !.cam.background_subtraction_enabled = TRUE], "True")

\* a disable that leaves the flag as it finds it
disable_background_subtraction_keeps_flag(w) == Ret(w, "True")

disable_background_subtraction(w) ==
    Ret([w EXCEPT !.cam.background_subtraction_enabled = FALSE], "True")

set_display_units(w, units) ==
    IF units \notin {"counts", "cps"} THEN Ret(w, "False")
    ELSE Ret([w EXCEPT !.cam.display_units = units], "True")

----------------------------------------------------------------------------
(* CameraLogic: the logic module.  l is the CameraLogic instance, w the camera *)

LRet(l, w, val, logged) ==
    [l |-> l, w |-> w, kind |-> "return", val |-> val, num |-> 0, logged |-> logged]
LRaise(l, w, ec) ==
    [l |-> l, w |-> w, kind |-> "raise", val |-> "SPC3Error", num |-> ec, logged |-> "none"]

L_set_exposure(l, w, time, ecs) ==
    IF l.module_state = "idle"
    THEN LET r == set_exposure(w, time, ecs)
         IN IF r.kind = "raise" THEN LRaise(l, r.w, r.num)
            ELSE LET g == get_exposure(r.w)
                 IN LRet([l EXCEPT !.exposure = g.w.cam.exposure], g.w, "None", "none")
    ELSE LRet(l, w, "None", "error")

L_get_exposure(l, w) ==
    LET g == get_exposure(w)
    IN LRet([l EXCEPT !.exposure = g.w.cam.exposure], g.w, "float", "none")

L_set_snap_frames(l, w, num_frames, ecs) ==
    IF l.module_state = "idle"
    THEN LET w1 == [w EXCEPT !.cam.NFrames = Max(1, Min(num_frames, 65534)),
                             !.dev.arg = FromInt(num_frames)]
             r  == apply_camera_settings(w1, ecs)
         IN IF r.kind = "raise" THEN LRet(l, r.w, "False", "error")
            ELSE LRet(l, r.w, "True", "info")
    ELSE LRet(l, w, "False", "warning")

L_capture_frame(l, w, e, ecImg, data) ==
    IF l.module_state = "idle"
    THEN LET l1 == [l EXCEPT !.module_state = "locked"]
             r  == start_single_acquisition(w, e.prepare, e.acquire, e.buffer)
             g  == get_acquired_data(r.w, ecImg, data)
         IN IF g.kind = "raise" THEN LRaise(l1, g.w, g.num)
            ELSE LRet([l1 EXCEPT !.module_state = "idle"], g.w, "None", "none")
    ELSE LRet(l, w, "None", "error")

L_start_video(l, w, ec) ==
    IF l.module_state = "idle"
    THEN LET l1 == [l EXCEPT !.module_state = "locked"]
             r  == start_live_acquisition(w, ec)
         IN IF r.kind = "raise" THEN LRaise(l1, r.w, r.num)
            ELSE LRet([l1 EXCEPT !.timer = TRUE], r.w, "None", "none")
    ELSE LRet(l, w, "None", "error")

L_stop_video(l, w, ec) ==
    IF l.module_state = "locked"
    THEN LET l1 == [l EXCEPT !.timer = FALSE]
             r  == stop_acquisition(w, ec)
         IN IF r.kind = "raise" THEN LRaise(l1, r.w, r.num)
            ELSE LRet([l1 EXCEPT !.module_state = "idle"], r.w, "None", "none")
    ELSE LRet(l, w, "None", "none")

L_start_single_acquisition(l, w, e) ==
    IF l.module_state # "idle" THEN LRet(l, w, "None", "error")
    ELSE LET r == start_single_acquisition(w, e.prepare, e.acquire, e.buffer)
         IN LRet(l, r.w, r.val, "none")

\* session: a continuous acquisition was started successfully and
\* _stop_continuous_acquisition has not been called since
L_start_continuous_acquisition(l, w, ec) ==
    IF l.module_state = "idle"
    THEN LET l1 == [l EXCEPT !.module_state = "locked"]
             r  == continuous_acquisition(w, ec)
         IN IF r.kind = "raise" THEN LRaise(l1, r.w, r.num)
            ELSE LRet([l1 EXCEPT !.total_bytes = 0, !.timer_continuous = TRUE,
                                 !.session = (r.val = "True")],
                      r.w, "None", "none")
    ELSE LRet(l, w, "None", "error")

L_stop_continuous_acquisition(l, w, ec) ==
    IF l.module_state = "locked"
    THEN LET l1 == [l EXCEPT !.timer_continuous = FALSE, !.session = FALSE]
             r  == stop_continuous_acquisition(w, ec)
         IN IF r.kind = "raise" THEN LRaise(l1, r.w, r.num)
            ELSE LRet([l1 EXCEPT !.module_state = "idle"], r.w, "None", "none")
    ELSE LRet([l EXCEPT !.session = FALSE], w, "None", "none")

\* the three background operations of a camera module; lacks names those the
\* connected module does not have, and a call of one raises AttributeError
BackgroundOperations ==
    {"capture_background_image", "enable_background_subtraction",
     "disable_background_subtraction"}

L_capture_background_image(lacks, l, w, ecOn, fail, ecImg, ecOff, imgs) ==
    IF l.module_state = "idle"
    THEN IF "capture_background_image" \in lacks THEN LRet(l, w, "False", "error")
         ELSE LET r == capture_background_image(w, ecOn, fail, ecImg, ecOff, imgs)
              IN LRet(l, r.w, r.val, IF r.val = "True" THEN "none" ELSE "warning")
    ELSE LRet(l, w, "False", "error")

L_enable_background_subtraction(lacks, l, w) ==
    IF "enable_background_subtraction" \in lacks THEN LRet(l, w, "False", "error")
    ELSE LET r == enable_background_subtraction(w)
         IN LRet(l, r.w, r.val, IF r.val = "True" THEN "none" ELSE "warning")

L_disable_background_subtraction(lacks, l, w) ==
    IF "disable_background_subtraction" \in lacks THEN LRet(l, w, "False", "error")
    ELSE LET r == disable_background_subtraction(w)
         IN LRet(l, r.w, r.val, "none")

L_toggle_background_subtraction(lacks, l, w, start) ==
    IF "enable_background_subtraction" \in lacks THEN LRet(l, w, "None", "warning")
    ELSE LET r == IF start THEN L_enable_background_subtraction(lacks, l, w)
                  ELSE L_disable_background_subtraction(lacks, l, w)
         IN [r EXCEPT !.val = "None"]

\* the slot of the single-shot video timer, which has just fired
L_acquire_video_frame(l, w, ec, data) ==
    LET l1 == [l EXCEPT !.timer = FALSE]
        g  == get_acquired_data(w, ec, data)
    IN IF g.kind = "raise" THEN LRaise(l1, g.w, g.num)
       ELSE IF l1.module_state = "locked"
            THEN LRet([l1 EXCEPT !.timer = TRUE], g.w, "None", "none")
            ELSE LRet(l1, g.w, "None", "none")

\* the slot of the single-shot continuous timer, which has just fired
L_acquire_continuous_frame(l, w, ec, bytes) ==
    LET l1 == [l EXCEPT !.timer_continuous = FALSE]
        g  == get_continuous_memory(w, ec, bytes)
    IN IF g.kind = "raise" THEN LRaise(l1, g.w, g.num)
       ELSE LET l2 == [l1 EXCEPT !.total_bytes = @ + g.num]
            IN IF l2.module_state = "locked"
               THEN LRet([l2 EXCEPT !.timer_continuous = TRUE], g.w, "None", "none")
               ELSE LRet(l2, g.w, "None", "none")

L_set_integration(l, w, integration_ns, ecs) ==
    IF l.module_state = "idle"
    THEN LET r == set_hardware_integration(w, integration_ns, ecs)
         IN IF r.kind = "raise" THEN LRet(l, r.w, "None", "error")
            ELSE LRet(l, r.w, "None", IF r.val = "True" THEN "info" ELSE "warning")
    ELSE LRet(l, w, "None", "error")

L_set_binning(l, w, binning, ecs) ==
    IF l.module_state = "idle"
    THEN LET r == set_binning(w, binning, ecs)
         IN IF r.kind = "raise" THEN LRet(l, r.w, "None", "error")
            ELSE LET g == get_exposure(r.w)
                 IN LRet([l EXCEPT !.exposure = g.w.cam.exposure], g.w, "None", "info")
    ELSE LRet(l, w, "None", "error")

\* CameraLogic.on_activate: reads the camera's exposure and creates both timers
L_on_activate(l, w) ==
    LET g == get_exposure(w)
    IN LRet([l EXCEPT !.exposure = g.w.cam.exposure, !.timer = FALSE,
                      !.timer_continuous = FALSE], g.w, "None", "none")

----------------------------------------------------------------------------
(* State after construction, and the inputs of the operations *)

default_NIntegFrames == 1000
initial_exposure == 2000000
logic_initial_exposure == 100

Modes(c) == [live |-> c.live, acquiring |-> c.acquiring, continuous |-> c.continuous]

Idle(c) == ~c.live /\ ~c.acquiring /\ ~c.continuous

\* the statuses of a SetCameraPar + ApplySettings (+ Is16Bit) pair
\* (the status of a call that is never made is written 0)
EcsSet ==
    {e \in [par : Status, apply : Status, is16ec : Status, is16 : BOOLEAN] :
        /\ e.par # 0 => e.apply = 0
        /\ (e.par # 0 \/ e.apply # 0) => e.is16ec = 0
        /\ (e.par # 0 \/ e.apply # 0 \/ e.is16ec # 0) => ~e.is16}

\* the same, on a device that reports 16-bit data after every successful write
LEcsSet == {e \in EcsSet : (e.par = 0 /\ e.apply = 0 /\ e.is16ec = 0) => e.is16}

\* the statuses of SnapPrepare, SnapAcquire and SnapGetImageBuffer
SnapEcs ==
    {e \in [prepare : Status, acquire : Status, buffer : Status] :
        /\ e.prepare # 0 => e.acquire = 0
        /\ (e.prepare # 0 \/ e.acquire # 0) => e.buffer = 0}

ArgUnits == (0 .. MaxArg) \cup {MAX_INTEG_FRAMES + 1}

\* requested exposures, in units of 10 ns: quarters of 10.4 us, and one too long
ExposureArgs ==
    {FromInt((u * HardwareIntegration_Normal) \div 4) : u \in 0 .. 4 * MaxArg}
        \cup {FromInt((MAX_INTEG_FRAMES + 1) * HardwareIntegration_Normal)}

BinningArgs == ArgUnits

\* requested hardware integrations in ns
IntegrationArgs == {0, 10 * (MAX_HARDWARE_INTEGRATION + 1)}
                       \cup {15 * u : u \in 1 .. MaxArg}

\* the class attributes _Nrows and _Ncols
Nrows == 32

Ncols == 64

InitCam ==
    [camera_mode : {"Normal", "Advanced"},
     HardwareIntegration : {default_hardware_integration},
     NFrames : 1 .. MaxFrames,
     NIntegFrames : {default_NIntegFrames},
     NCounters : {1}, Force8bit : {0}, Half_array : {0}, Signed_data : {0},
     exposure : {Ticks(initial_exposure \div 1000, 1000)},
     live : {FALSE}, acquiring : {FALSE}, continuous : {FALSE},
     background_subtraction_enabled : {FALSE},
     background_image : {NoImage},
     display_units : {"counts"},
     Ncols : {Ncols}]

InitSpc3 == [snap_num_frames |-> 0, data_bits |-> 0, num_counters |-> 1,
             data_is_signed |-> FALSE, num_pixels |-> 0]

InitDev == [log |-> <<>>, contOpen |-> 0, destroyed |-> TRUE,
            par |-> [Exposure |-> 0, NFrames |-> 0, NIntegFrames |-> 0],
            sent |-> [Exposure |-> 0, NFrames |-> 0, NIntegFrames |-> 0],
            pending |-> FALSE, warned |-> FALSE, arg |-> FromInt(0),
            delivered |-> NoImage, image |-> NoFrame, captured |-> <<>>]

InitLogic == [module_state |-> "idle", exposure |-> Ticks(logic_initial_exposure * 1000, 100000),
              timer |-> FALSE,
              timer_continuous |-> FALSE, total_bytes |-> 0, session |-> FALSE]

Threads == {"ui", "poller"}

InitThr == [t \in Threads |-> [program |-> <<>>, pc |-> 0, in_camera |-> "none"]]

InitLock == [owner |-> "none", depth |-> 0]

\* no buffer or file has been handed to the decoding functions, none is loaded
NoInput == [kind |-> "none"]

NoResult == [call |-> "none", kind |-> "none", val |-> "none"]

InitIo == [input |-> NoInput, result |-> NoResult, loaded |-> [set |-> FALSE]]

InitObjectsWith(cams) ==
    /\ cam \in cams
    /\ spc3 = InitSpc3
    /\ dev = InitDev
    /\ active = FALSE
    /\ last = [op |-> "init", kind |-> "return", val |-> "None", num |-> 0,
               logged |-> "none",
               pre |-> [live |-> FALSE, acquiring |-> FALSE, continuous |-> FALSE]]
    /\ logic = InitLogic
    /\ thr = InitThr
    /\ lock = InitLock

InitObjects == InitObjectsWith(InitCam)

Init ==
    /\ InitObjects
    /\ io = InitIo

\* the world a handler starts in: the call log of the previous operation is dropped
W0 == [cam |-> cam, spc3 |-> spc3,
       dev |-> [dev EXCEPT !.log = <<>>, !.warned = FALSE, !.arg = FromInt(0),
                           !.delivered = NoImage, !.image = NoFrame,
                           !.captured = <<>>]]

\* the frames the sensor can deliver: dark ones, unless light falls on it
DarkFrame == [i \in 1 .. FramePixels |-> 0]

LiveFrames ==
    IF io.input.kind = "scene"
    THEN {f \in [1 .. FramePixels -> 0 .. io.input.brightest] :
             \A i \in 2 .. FramePixels : f[i] \in {0, io.input.brightest}}
    ELSE {DarkFrame}

\* the background operations the connected camera module does not have: none
\* for SPC3_Qudi, some for a camera module of another make
Lacking == IF io.input.kind = "camera" THEN io.input.lacks ELSE {}

Do(op, r) ==
    /\ cam' = r.w.cam
    /\ spc3' = r.w.spc3
    /\ dev' = r.w.dev
    /\ last' = [op |-> op, kind |-> r.kind, val |-> r.val, num |-> r.num,
                logged |-> "none", pre |-> Modes(cam)]

LDo(op, r) ==
    /\ logic' = r.l
    /\ cam' = r.w.cam
    /\ spc3' = r.w.spc3
    /\ dev' = r.w.dev
    /\ last' = [op |-> op, kind |-> r.kind, val |-> r.val, num |-> r.num,
                logged |-> r.logged, pre |-> Modes(cam)]

----------------------------------------------------------------------------
(* Spec: SPC3_Qudi driven directly, by any sequence of its operations *)

Hw_on_activate ==
    /\ ~active
    /\ \E ecC \in Status, ecs \in EcsSet :
          LET r == on_activate(W0, ecC, ecs)
          IN Do("on_activate", r) /\ active' = (r.kind = "return")
    /\ UNCHANGED <<io, logic, thr, lock>>

Hw_on_deactivate ==
    /\ active
    /\ \E ecOff \in Status, ecStop \in Status, ecD \in Status :
          Do("on_deactivate", on_deactivate(W0, ecOff, ecStop, ecD))
    /\ active' = FALSE
    /\ UNCHANGED <<io, logic, thr, lock>>

Hw_start_live_acquisition ==
    /\ active
    /\ \E ec \in Status : Do("start_live_acquisition", start_live_acquisition(W0, ec))
    /\ UNCHANGED <<io, active, logic, thr, lock>>

Hw_start_single_acquisition ==
    /\ active
    /\ \E e \in SnapEcs :
          Do("start_single_acquisition",
             start_single_acquisition(W0, e.prepare, e.acquire, e.buffer))
    /\ UNCHANGED <<io, active, logic, thr, lock>>

Hw_continuous_acquisition ==
    /\ active
    /\ dev.contOpen < MaxOpen
    /\ \E ec \in Status : Do("continuous_acquisition", continuous_acquisition(W0, ec))
    /\ UNCHANGED <<io, active, logic, thr, lock>>

Hw_stop_continuous_acquisition ==
    /\ active
    /\ \E ec \in Status :
          Do("stop_continuous_acquisition", stop_continuous_acquisition(W0, ec))
    /\ UNCHANGED <<io, active, logic, thr, lock>>

Hw_get_continuous_memory ==
    /\ active
    /\ \E ec \in PollStatus, bytes \in 0 .. MaxBytes :
          Do("get_continuous_memory", get_continuous_memory(W0, ec, bytes))
    /\ UNCHANGED <<io, active, logic, thr, lock>>

Hw_stop_acquisition ==
    /\ active
    /\ \E ec \in Status : Do("stop_acquisition", stop_acquisition(W0, ec))
    /\ UNCHANGED <<io, active, logic, thr, lock>>

Hw_get_acquired_data ==
    /\ active
    /\ \E ec \in Status, data \in LiveFrames :
          Do("get_acquired_data", get_acquired_data(W0, ec, data))
    /\ UNCHANGED <<io, active, logic, thr, lock>>

\* the statuses a setter of SPC3_Qudi meets: a library call fails only when the
\* last write sent to the device was accepted and applied, which keeps the
\* device's history of failed writes one operation deep
SetterEcs ==
    {e \in LEcsSet :
        (e.par # 0 \/ e.apply # 0 \/ e.is16ec # 0)
            => (dev.par = dev.sent /\ ~dev.pending)}

Hw_set_exposure ==
    /\ active
    /\ \E x \in ExposureArgs, ecs \in SetterEcs : Do("set_exposure", set_exposure(W0, x, ecs))
    /\ UNCHANGED <<io, active, logic, thr, lock>>

Hw_get_exposure ==
    /\ active
    /\ Do("get_exposure", get_exposure(W0))
    /\ UNCHANGED <<io, active, logic, thr, lock>>

Hw_set_hardware_integration ==
    /\ active
    /\ \E x \in IntegrationArgs, ecs \in SetterEcs :
          Do("set_hardware_integration", set_hardware_integration(W0, x, ecs))
    /\ UNCHANGED <<io, active, logic, thr, lock>>

Hw_set_binning ==
    /\ active
    /\ \E x \in BinningArgs, ecs \in SetterEcs : Do("set_binning", set_binning(W0, x, ecs))
    /\ UNCHANGED <<io, active, logic, thr, lock>>

Hw_capture_background_image ==
    /\ active
    /\ \E ecOn \in Status, fail \in 0 .. cam.NFrames, ecImg \in Status \ {0},
          ecOff \in Status :
          \E imgs \in IF fail = 0 THEN [1 .. cam.NFrames -> LiveFrames]
                      ELSE {[k \in 1 .. cam.NFrames |-> DarkFrame]} :
          Do("capture_background_image",
             capture_background_image(W0, ecOn, fail, ecImg, ecOff, imgs))
    /\ UNCHANGED <<io, active, logic, thr, lock>>

Hw_enable_background_subtraction ==
    /\ active
    /\ Do("enable_background_subtraction", enable_background_subtraction(W0))
    /\ UNCHANGED <<io, active, logic, thr, lock>>

Hw_disable_background_subtraction ==
    /\ active
    /\ Do("disable_background_subtraction", disable_background_subtraction(W0))
    /\ UNCHANGED <<io, active, logic, thr, lock>>

Hw_set_display_units ==
    /\ active
    /\ \E units \in {"counts", "cps", "Hz"} : Do("set_display_units", set_display_units(W0, units))
    /\ UNCHANGED <<io, active, logic, thr, lock>>

\* the acquisition modes: activation, Live, Snap, Continuous, background capture
Next ==
    \/ Hw_on_activate
    \/ Hw_on_deactivate
    \/ Hw_start_live_acquisition
    \/ Hw_start_single_acquisition
    \/ Hw_continuous_acquisition
    \/ Hw_stop_continuous_acquisition
    \/ Hw_get_continuous_memory
    \/ Hw_stop_acquisition
    \/ Hw_get_acquired_data
    \/ Hw_capture_background_image

Spec == Init /\ [][Next]_vars

\* a caller that reads the exposure and writes it back: set_exposure(get_exposure())
Hw_exposure_round_trip ==
    /\ active
    /\ \E ecs \in SetterEcs :
          LET g == get_exposure(W0)
          IN Do("set_exposure(get_exposure())", set_exposure(g.w, g.w.cam.exposure, ecs))
    /\ UNCHANGED <<io, active, logic, thr, lock>>

----------------------------------------------------------------------------
(* SpecLogic: CameraLogic on top of SPC3_Qudi, driven by its callers and timers *)

\* the arguments callers of CameraLogic pass
LExposureArgs == {FromInt(u * HardwareIntegration_Normal) : u \in 1 .. MaxArg}
LBinningArgs == 1 .. MaxArg
LIntegrationArgs == {15 * u : u \in 1 .. MaxArg}
LSnapArgs == {0, MaxFrames, 65535}

\* the camera is activated first, then the logic module that connects to it
Lg_activate ==
    /\ ~active
    /\ \E ecC \in Status, ecs \in LEcsSet :
          LET r == on_activate(W0, ecC, ecs)
          IN IF r.kind = "raise"
             THEN Do("on_activate", r) /\ active' = FALSE /\ UNCHANGED logic
             ELSE LDo("on_activate", L_on_activate(logic, r.w)) /\ active' = TRUE
    /\ UNCHANGED <<io, thr, lock>>

Lg_set_exposure ==
    /\ active
    /\ \E x \in LExposureArgs, ecs \in LEcsSet :
          LDo("set_exposure", L_set_exposure(logic, W0, x, ecs))
    /\ UNCHANGED <<io, active, thr, lock>>

Lg_set_snap_frames ==
    /\ active
    /\ \E n \in LSnapArgs, ecs \in LEcsSet :
          LDo("set_snap_frames", L_set_snap_frames(logic, W0, n, ecs))
    /\ UNCHANGED <<io, active, thr, lock>>

Lg_set_integration ==
    /\ active
    /\ \E x \in LIntegrationArgs, ecs \in LEcsSet :
          LDo("set_integration", L_set_integration(logic, W0, x, ecs))
    /\ UNCHANGED <<io, active, thr, lock>>

Lg_set_binning ==
    /\ active
    /\ \E x \in LBinningArgs, ecs \in LEcsSet :
          LDo("set_binning", L_set_binning(logic, W0, x, ecs))
    /\ UNCHANGED <<io, active, thr, lock>>

Lg_capture_frame ==
    /\ active
    /\ \E e \in SnapEcs, ecImg \in Status, data \in LiveFrames :
          LDo("capture_frame", L_capture_frame(logic, W0, e, ecImg, data))
    /\ UNCHANGED <<io, active, thr, lock>>

Lg_toggle_video_start ==
    /\ active
    /\ \E ec \in Status : LDo("toggle_video(True)", L_start_video(logic, W0, ec))
    /\ UNCHANGED <<io, active, thr, lock>>

Lg_toggle_video_stop ==
    /\ active
    /\ \E ec \in Status : LDo("toggle_video(False)", L_stop_video(logic, W0, ec))
    /\ UNCHANGED <<io, active, thr, lock>>

Lg_start_single_acquisition ==
    /\ active
    /\ \E e \in SnapEcs :
          LDo("start_single_acquisition", L_start_single_acquisition(logic, W0, e))
    /\ UNCHANGED <<io, active, thr, lock>>

Lg_toggle_continuous_start ==
    /\ active
    /\ dev.contOpen < MaxOpen
    /\ \E ec \in Status :
          LDo("toggle_continuous_acquisition(True)",
              L_start_continuous_acquisition(logic, W0, ec))
    /\ UNCHANGED <<io, active, thr, lock>>

Lg_toggle_continuous_stop ==
    /\ active
    /\ \E ec \in Status :
          LDo("toggle_continuous_acquisition(False)",
              L_stop_continuous_acquisition(logic, W0, ec))
    /\ UNCHANGED <<io, active, thr, lock>>

Lg_capture_background_image ==
    /\ active
    /\ \E ecOn \in Status, fail \in 0 .. cam.NFrames, ecImg \in Status \ {0},
          ecOff \in Status :
          \E imgs \in IF fail = 0 THEN [1 .. cam.NFrames -> LiveFrames]
                      ELSE {[k \in 1 .. cam.NFrames |-> DarkFrame]} :
          LDo("capture_background_image",
              L_capture_background_image(Lacking, logic, W0, ecOn, fail, ecImg, ecOff, imgs))
    /\ UNCHANGED <<io, active, thr, lock>>

Lg_enable_background_subtraction ==
    /\ active
    /\ LDo("enable_background_subtraction",
           L_enable_background_subtraction(Lacking, logic, W0))
    /\ UNCHANGED <<io, active, thr, lock>>

Lg_disable_background_subtraction ==
    /\ active
    /\ LDo("disable_background_subtraction",
           L_disable_background_subtraction(Lacking, logic, W0))
    /\ UNCHANGED <<io, active, thr, lock>>

Lg_toggle_background_subtraction ==
    /\ active
    /\ \E start \in BOOLEAN :
          LDo(IF start THEN "toggle_background_subtraction(True)"
              ELSE "toggle_background_subtraction(False)",
              L_toggle_background_subtraction(Lacking, logic, W0, start))
    /\ UNCHANGED <<io, active, thr, lock>>

Lg_acquire_video_frame ==
    /\ active
    /\ logic.timer
    /\ \E ec \in Status, data \in LiveFrames :
          LDo("__acquire_video_frame", L_acquire_video_frame(logic, W0, ec, data))
    /\ UNCHANGED <<io, active, thr, lock>>

Lg_acquire_continuous_frame ==
    /\ active
    /\ logic.timer_continuous
    /\ \E ec \in PollStatus, bytes \in 0 .. MaxBytes :
          /\ logic.total_bytes + bytes <= MaxBytes
          /\ LDo("__acquire_continuous_frame",
                 L_acquire_continuous_frame(logic, W0, ec, bytes))
    /\ UNCHANGED <<io, active, thr, lock>>

\* the acquisitions and the two timers
NextLogic ==
    \/ Lg_activate
    \/ Lg_capture_frame
    \/ Lg_toggle_video_start
    \/ Lg_toggle_video_stop
    \/ Lg_start_single_acquisition
    \/ Lg_toggle_continuous_start
    \/ Lg_toggle_continuous_stop
    \/ Lg_capture_background_image
    \/ Lg_acquire_video_frame
    \/ Lg_acquire_continuous_frame

SpecLogic == Init /\ [][NextLogic]_vars

\* the parameter setters, with the operations that lock and unlock the module
NextLogicPar ==
    \/ Lg_activate
    \/ Lg_set_exposure
    \/ Lg_set_snap_frames
    \/ Lg_set_integration
    \/ Lg_set_binning
    \/ Lg_toggle_video_start
    \/ Lg_toggle_video_stop
    \/ Lg_toggle_continuous_start
    \/ Lg_toggle_continuous_stop

SpecLogicPar == Init /\ [][NextLogicPar]_vars

\* CameraLogic over a camera module that may lack background operations
InitCaps ==
    /\ InitObjects
    /\ cam.NFrames = 1
    /\ \E lacks \in SUBSET BackgroundOperations :
          io = [InitIo EXCEPT !.input = [kind |-> "camera", lacks |-> lacks]]

NextCaps ==
    \/ Lg_activate
    \/ Lg_toggle_video_start
    \/ Lg_toggle_video_stop
    \/ Lg_capture_background_image
    \/ Lg_enable_background_subtraction
    \/ Lg_disable_background_subtraction
    \/ Lg_toggle_background_subtraction

SpecCaps == InitCaps /\ [][NextCaps]_vars

\* the acquisition parameters and what reaches the wrapper: the setters of
\* SPC3_Qudi, and CameraLogic.set_snap_frames, which writes _NFrames itself
InitPar == Init /\ cam.NFrames = 1

NextPar ==
    \/ Hw_on_activate
    \/ Hw_set_exposure
    \/ Hw_get_exposure
    \/ Hw_exposure_round_trip
    \/ Hw_set_hardware_integration
    \/ Hw_set_binning
    \/ Lg_set_snap_frames

SpecPar == InitPar /\ [][NextPar]_vars

\* a parameter setter between the acquisitions: what was written and applied
\* when an acquisition starts
NextApply ==
    \/ Hw_on_activate
    \/ Hw_set_exposure
    \/ Hw_start_live_acquisition
    \/ Hw_stop_acquisition
    \/ Hw_start_single_acquisition
    \/ Hw_continuous_acquisition
    \/ Hw_stop_continuous_acquisition

SpecApply == InitPar /\ [][NextApply]_vars

\* the frames of the live view: light of up to MaxCount counts per pixel falls
\* on the sensor, one or two frames are averaged for the background
InitImg ==
    /\ InitObjects
    /\ cam.NFrames \in {1, 2}
    /\ io = [InitIo EXCEPT !.input = [kind |-> "scene", brightest |-> MaxCount]]

NextImg ==
    \/ Hw_on_activate
    \/ Hw_start_live_acquisition
    \/ Hw_stop_acquisition
    \/ Hw_get_acquired_data
    \/ Hw_capture_background_image
    \/ Hw_enable_background_subtraction
    \/ Hw_disable_background_subtraction
    \/ Hw_set_display_units

SpecImg == InitImg /\ [][NextImg]_vars

----------------------------------------------------------------------------
(* SpecConc: the threads that enter CameraLogic, and CameraLogic._thread_lock.     *)
(* A method is the sequence of its steps: "lock" and "unlock" are the entry and    *)
(* exit of its "with self._thread_lock" block, "check" is a hasattr test on the    *)
(* camera object, every other step is the call of that method of the camera        *)
(* module ("_NFrames=" is the assignment to camera._NFrames).                      *)

P_acquire_continuous_frame_unlocked == <<"get_continuous_memory">>

P_set_exposure == <<"lock", "set_exposure", "get_exposure", "unlock">>
P_get_exposure == <<"lock", "get_exposure", "unlock">>
P_get_display_units == <<"lock", "get_display_units", "unlock">>
P_set_display_units == <<"lock", "set_display_units", "unlock">>
P_set_snap_frames == <<"lock", "_NFrames=", "_apply_camera_settings", "unlock">>
P_set_gain == <<"lock", "set_gain", "get_gain", "unlock">>
P_get_gain == <<"lock", "get_gain", "unlock">>
P_capture_frame == <<"lock", "start_single_acquisition", "get_acquired_data", "unlock">>
P_start_video == <<"lock", "support_live_acquisition", "start_live_acquisition", "unlock">>
P_stop_video == <<"lock", "stop_acquisition", "unlock">>
P_start_single_acquisition == <<"lock", "start_single_acquisition", "unlock">>
P_save_frames_to_file == <<"lock", "save_frames_to_file", "unlock">>
P_start_continuous_acquisition == <<"lock", "support_live_acquisition", "continuous_acquisition", "unlock">>
P_stop_continuous_acquisition == <<"lock", "stop_continuous_acquisition", "unlock">>
P_capture_background_image == <<"lock", "capture_background_image", "unlock">>
P_enable_background_subtraction == <<"lock", "enable_background_subtraction", "unlock">>
P_disable_background_subtraction == <<"lock", "disable_background_subtraction", "unlock">>
P_toggle_background_subtraction_on == <<"check">> \o P_enable_background_subtraction
P_toggle_background_subtraction_off == <<"check">> \o P_disable_background_subtraction
P_acquire_video_frame == <<"lock", "get_acquired_data", "support_live_acquisition", "unlock">>
P_acquire_continuous_frame == <<"lock", "get_continuous_memory", "unlock">>
P_set_integration == <<"lock", "set_hardware_integration", "unlock">>
P_set_binning == <<"lock", "set_binning", "get_exposure", "unlock">>

\* the public methods, which the callers' thread runs
UiPrograms ==
    {P_set_exposure, P_get_exposure, P_get_display_units, P_set_display_units,
     P_set_snap_frames, P_set_gain, P_get_gain, P_capture_frame, P_start_video,
     P_stop_video, P_start_single_acquisition, P_save_frames_to_file,
     P_start_continuous_acquisition, P_stop_continuous_acquisition,
     P_capture_background_image, P_enable_background_subtraction,
     P_disable_background_subtraction, P_toggle_background_subtraction_on,
     P_toggle_background_subtraction_off, P_set_integration, P_set_binning}

\* the slots of the two timers, which the module's own thread runs
PollerPrograms == {P_acquire_video_frame, P_acquire_continuous_frame}

ProgramsOf(t) == IF t = "ui" THEN UiPrograms ELSE PollerPrograms

Control == {"lock", "unlock", "check"}

Running(t) == thr[t].pc > 0

StepOf(t) == thr[t].program[thr[t].pc]

\* the thread moves past the step it is at; past the last one the method returns
Advance(t) ==
    IF thr[t].pc = Len(thr[t].program)
    THEN [thr EXCEPT ![t] = [program |-> <<>>, pc |-> 0, in_camera |-> "none"]]
    ELSE [thr EXCEPT ![t].pc = @ + 1, ![t].in_camera = "none"]

Cc_begin ==
    /\ \E t \in Threads :
          /\ ~Running(t)
          /\ \E prog \in ProgramsOf(t) :
                thr' = [thr EXCEPT ![t] = [program |-> prog, pc |-> 1,
                                           in_camera |-> "none"]]
    /\ UNCHANGED <<io, cam, spc3, dev, active, last, logic, lock>>

\* RecursiveMutex: free, or held by the same thread
Cc_lock ==
    /\ \E t \in Threads :
          /\ Running(t) /\ StepOf(t) = "lock"
          /\ lock.owner \in {"none", t}
          /\ lock' = [owner |-> t, depth |-> lock.depth + 1]
          /\ thr' = Advance(t)
    /\ UNCHANGED <<io, cam, spc3, dev, active, last, logic>>

Cc_unlock ==
    /\ \E t \in Threads :
          /\ Running(t) /\ StepOf(t) = "unlock"
          /\ lock' = IF lock.depth = 1 THEN [owner |-> "none", depth |-> 0]
                     ELSE [lock EXCEPT !.depth = @ - 1]
          /\ thr' = Advance(t)
    /\ UNCHANGED <<io, cam, spc3, dev, active, last, logic>>

Cc_check ==
    /\ \E t \in Threads :
          /\ Running(t) /\ StepOf(t) = "check"
          /\ thr' = Advance(t)
    /\ UNCHANGED <<io, cam, spc3, dev, active, last, logic, lock>>

\* the thread enters the camera module
Cc_call ==
    /\ \E t \in Threads :
          /\ Running(t) /\ StepOf(t) \notin Control
          /\ thr[t].in_camera = "none"
          /\ thr' = [thr EXCEPT ![t].in_camera = StepOf(t)]
    /\ UNCHANGED <<io, cam, spc3, dev, active, last, logic, lock>>

\* the camera call returns
Cc_return ==
    /\ \E t \in Threads :
          /\ Running(t) /\ thr[t].in_camera # "none"
          /\ thr' = Advance(t)
    /\ UNCHANGED <<io, cam, spc3, dev, active, last, logic, lock>>

\* the camera call raises: the with block is left and the method ends
Cc_raise ==
    /\ \E t \in Threads :
          /\ Running(t) /\ thr[t].in_camera # "none"
          /\ thr' = [thr EXCEPT ![t] = [program |-> <<>>, pc |-> 0, in_camera |-> "none"]]
          /\ lock' = IF lock.owner = t THEN [owner |-> "none", depth |-> 0] ELSE lock
    /\ UNCHANGED <<io, cam, spc3, dev, active, last, logic>>

NextConc ==
    \/ Cc_begin
    \/ Cc_lock
    \/ Cc_unlock
    \/ Cc_check
    \/ Cc_call
    \/ Cc_return
    \/ Cc_raise

SpecConc == Init /\ [][NextConc]_vars

----------------------------------------------------------------------------
(* The claims.  dev.log holds the library calls of the operation named by last.op, *)
(* last.pre the mode flags that operation started from.                            *)

Issued(call) == \E i \in DOMAIN dev.log : dev.log[i].call = call

ActiveModes(c) ==
    (IF c.live THEN 1 ELSE 0) + (IF c.acquiring THEN 1 ELSE 0)
        + (IF c.continuous THEN 1 ELSE 0)

\* C1: after any sequence of SPC3_Qudi operations at most one of the modes
\* Live (_live), Snap (_acquiring) and Continuous (_continuous) is active.
C1_MutualExclusion == ActiveModes(cam) <= 1

\* C2: start_live_acquisition called while a Continuous acquisition or a Snap is
\* active fails, does not issue LiveSetModeON and does not mark the device Live.
C2_LiveOnlyFromIdle ==
    (last.op = "start_live_acquisition" /\ ~last.pre.live
        /\ (last.pre.continuous \/ last.pre.acquiring))
    => /\ last.kind = "raise" \/ last.val = "False"
       /\ ~Issued("LiveSetModeON")
       /\ ~cam.live

\* C3: while Live is active start_single_acquisition returns None and issues no
\* Snap call, continuous_acquisition returns False and does not issue
\* ContAcqToFileStart, and both leave _live, _acquiring and _continuous as they were.
C3_RejectedWhileLive ==
    /\ (last.op = "start_single_acquisition" /\ last.pre.live)
       => /\ last.kind = "return" /\ last.val = "None"
          /\ dev.log = <<>>
          /\ Modes(cam) = last.pre
    /\ (last.op = "continuous_acquisition" /\ last.pre.live)
       => /\ last.kind = "return" /\ last.val = "False"
          /\ dev.log = <<>>
          /\ Modes(cam) = last.pre

C3_Witness ==
    /\ last.op = "start_single_acquisition"
    /\ last.pre.live
    /\ last.val = "None"
    /\ cam.live

SnapOrder == <<"SnapPrepare", "SnapAcquire", "SnapGetImageBuffer">>

SnapCalls == {SnapOrder[i] : i \in DOMAIN SnapOrder}

\* C4: the library calls of a snap are SnapPrepare, SnapAcquire, SnapGetImageBuffer
\* in this order, each issued only after the one before it succeeded, no step is
\* issued after a failed one, no Snap call is issued outside a snap, and
\* _acquiring is false when start_single_acquisition returns.
C4_SnapSequencing ==
    /\ last.op = "start_single_acquisition"
       => /\ Len(dev.log) <= Len(SnapOrder)
          /\ \A i \in DOMAIN dev.log :
                /\ dev.log[i].call = SnapOrder[i]
                /\ i < Len(dev.log) => dev.log[i].ec = 0
          /\ ~last.pre.live => Len(dev.log) >= 1
          /\ (dev.log # <<>> /\ dev.log[Len(dev.log)].ec = 0)
                => Len(dev.log) = Len(SnapOrder) /\ last.val = "frames"
          /\ last.kind = "return"
          /\ ~cam.acquiring
    /\ last.op # "start_single_acquisition"
       => \A i \in DOMAIN dev.log : dev.log[i].call \notin SnapCalls

C4_Witness ==
    /\ last.op = "start_single_acquisition"
    /\ Len(dev.log) = 2
    /\ dev.log[2].call = "SnapAcquire"
    /\ dev.log[2].ec # 0
    /\ last.val = "None"
    /\ ~cam.acquiring

SetterOps == {"set_exposure", "set_snap_frames", "set_integration", "set_binning"}

Parameters(c) ==
    [NFrames |-> c.NFrames, NIntegFrames |-> c.NIntegFrames,
     HardwareIntegration |-> c.HardwareIntegration, NCounters |-> c.NCounters,
     Force8bit |-> c.Force8bit, Half_array |-> c.Half_array,
     Signed_data |-> c.Signed_data, exposure |-> c.exposure]

\* C5: a CameraLogic setter (set_exposure, set_snap_frames, set_integration,
\* set_binning) called while the camera is not Idle leaves the stored parameters
\* as they were and sends neither SetCameraPar nor ApplySettings.
C5_NoChangeWhileBusy ==
    [][(last'.op \in SetterOps /\ ~Idle(cam))
         => /\ Parameters(cam') = Parameters(cam)
            /\ \A i \in DOMAIN dev'.log :
                  dev'.log[i].call \notin {"SetCameraPar", "ApplySettings"}]_vars

\* C6: between a successful _start_continuous_acquisition and the next call of
\* _stop_continuous_acquisition, a poll of get_continuous_memory that returns
\* leaves the poll timer armed.
C6_PollRearmed ==
    (last.op = "__acquire_continuous_frame" /\ last.kind = "return" /\ logic.session)
    => logic.timer_continuous

\* C7: a library call that returns a non-zero status is the last call of its
\* operation and the operation fails with it; a failed SetCameraPar leaves the
\* recorded settings as they were before it; a failed poll reaches the caller of
\* get_continuous_memory as an SPC3Error with that status, after a single call.
C7_NoStatusIgnored ==
    [][LET log == dev'.log
           n   == Len(log)
       IN /\ \A i \in 1 .. n :
                log[i].ec # 0
                => /\ i = n
                   /\ \/ last'.kind = "raise" /\ last'.num = log[i].ec
                      \/ last'.op = "start_single_acquisition" /\ last'.val = "None"
                      \/ last'.op = "capture_background_image" /\ last'.val = "False"
          /\ (n > 0 /\ log[n].call = "SetCameraPar" /\ log[n].ec # 0)
                => spc3' = IF \E i \in 1 .. n : log[i].call = "Constr"
                           THEN InitSpc3 ELSE spc3
          /\ (last'.op = "get_continuous_memory" /\ n > 0 /\ log[1].ec # 0)
                => n = 1 /\ last'.kind = "raise" /\ last'.val = "SPC3Error"
                         /\ last'.num = log[1].ec]_vars

C7_Witness ==
    /\ last.op = "get_continuous_memory"
    /\ last.kind = "raise"
    /\ Len(dev.log) = 1
    /\ dev.log[1].ec # 0

\* C8: ContAcqToFileStart is never issued while a continuous acquisition is open
\* on the device, and none is open when the device has been destroyed.
C8_StartStopAlternate ==
    /\ dev.contOpen <= 1
    /\ dev.destroyed => dev.contOpen = 0

\* C9: stop_acquisition and stop_continuous_acquisition called with no mode
\* active issue no library call, return, and change no mode flag and no parameter.
C9_StopFromIdleNoOp ==
    [][(last'.op \in {"stop_acquisition", "stop_continuous_acquisition"} /\ Idle(cam))
         => /\ dev'.log = <<>>
            /\ last'.kind = "return"
            /\ cam' = cam
            /\ spc3' = spc3]_vars

C9_Witness ==
    /\ last.op = "stop_acquisition"
    /\ Idle(last.pre)
    /\ dev.log = <<>>
    /\ last.kind = "return"

TLE(a, b) == a.hi < b.hi \/ (a.hi = b.hi /\ a.lo <= b.lo)

Twice(t) == [hi |-> 2 * t.hi + ((2 * t.lo) \div 65536), lo |-> (2 * t.lo) % 65536]

InRange(v) == 1 <= v /\ v <= 65534

\* C11: in Normal mode every SetCameraPar sent by SPC3_Qudi carries Exposure = 1040,
\* and set_hardware_integration returns False, sends nothing and leaves
\* _HardwareIntegration, _NIntegFrames and _exposure as they were.
C11_NormalModeFixed ==
    [][cam.camera_mode = "Normal"
         => /\ (\E i \in DOMAIN dev'.log : dev'.log[i].call = "SetCameraPar")
                  => dev'.sent.Exposure = HardwareIntegration_Normal
            /\ last'.op = "set_hardware_integration"
                  => /\ last'.kind = "return" /\ last'.val = "False"
                     /\ dev'.log = <<>>
                     /\ cam'.HardwareIntegration = cam.HardwareIntegration
                     /\ cam'.NIntegFrames = cam.NIntegFrames
                     /\ cam'.exposure = cam.exposure]_vars

C11_Witness ==
    /\ cam.camera_mode = "Normal"
    /\ last.op = "set_hardware_integration"
    /\ last.val = "False"
    /\ dev.arg = FromInt(15)

\* C12: once activated, after any sequence of setters the cached exposure is
\* NIntegFrames x integration cycles x 10 ns (1040 cycles in Normal mode,
\* _HardwareIntegration in Advanced mode), and these are the NIntegFrames and
\* Exposure of the last SetCameraPar sent.
C12_ExposureRelation ==
    active
    => /\ cam.exposure = Ticks(cam.NIntegFrames, hardware_time(cam))
       /\ dev.sent.NIntegFrames = cam.NIntegFrames
       /\ dev.sent.Exposure = hardware_time(cam)
       /\ cam.camera_mode = "Normal" => dev.sent.Exposure = HardwareIntegration_Normal
       /\ cam.camera_mode = "Advanced" => dev.sent.Exposure = cam.HardwareIntegration

C12_Witness ==
    /\ active
    /\ last.op = "set_binning"
    /\ cam.camera_mode = "Advanced"
    /\ cam.HardwareIntegration = 2
    /\ cam.NIntegFrames = MAX_INTEG_FRAMES
    /\ cam.exposure = FromInt(2 * MAX_INTEG_FRAMES)

\* C13: set_exposure stores the integer nearest to exposure / integration time,
\* clamped to [1, 65534]; it warns exactly when the clamp changed the rounded
\* value, and returns True unless a library call failed.
C13_RoundedAndClamped ==
    last.op = "set_exposure"
    => LET h == hardware_time(cam)
           n == cam.NIntegFrames
           x2 == Twice(dev.arg)
       IN /\ \/ /\ InRange(n)
                /\ TLE(Ticks(2 * n - 1, h), x2) /\ TLE(x2, Ticks(2 * n + 1, h))
                /\ ~dev.warned
             \/ /\ n = MIN_INTEG_FRAMES
                /\ TLE(x2, Ticks(1, h))
                /\ dev.warned
             \/ /\ n = MAX_INTEG_FRAMES
                /\ TLE(Ticks(2 * MAX_INTEG_FRAMES + 1, h), x2)
                /\ dev.warned
          /\ (\A i \in DOMAIN dev.log : dev.log[i].ec = 0)
                => last.kind = "return" /\ last.val = "True"

C13_Witness ==
    /\ last.op = "set_exposure"
    /\ cam.camera_mode = "Normal"
    /\ dev.arg = FromInt((3 * HardwareIntegration_Normal) \div 4)
    /\ cam.NIntegFrames = 1
    /\ ~dev.warned
    /\ last.val = "True"

\* C14: once activated, integration cycles, integrated frames and frames per
\* acquisition stay within [1, 65534], and so do the values of every
\* SetCameraPar sent.
C14_ParameterRanges ==
    active
    => /\ InRange(cam.HardwareIntegration)
       /\ InRange(cam.NIntegFrames)
       /\ InRange(cam.NFrames)
       /\ InRange(dev.sent.Exposure)
       /\ InRange(dev.sent.NIntegFrames)
       /\ InRange(dev.sent.NFrames)

C14_Witness ==
    /\ active
    /\ last.op = "set_binning"
    /\ dev.arg = FromInt(MAX_INTEG_FRAMES + 1)
    /\ cam.NIntegFrames = MAX_INTEG_FRAMES
    /\ dev.sent.NIntegFrames = MAX_INTEG_FRAMES

\* C15: a setter that stores a value other than the one requested, because the
\* request was out of range, reports it: by a warning or by a failure result.
C15_ClampReported ==
    /\ (last.op = "set_binning" /\ last.kind = "return"
            /\ FromInt(cam.NIntegFrames) # dev.arg)
       => dev.warned \/ last.val = "False"
    /\ (last.op = "set_hardware_integration" /\ last.kind = "return"
            /\ cam.camera_mode = "Advanced"
            /\ FromInt(10 * cam.HardwareIntegration) # dev.arg
            /\ (dev.arg = FromInt(0) \/ TLE(FromInt(10 * MAX_HARDWARE_INTEGRATION + 5), dev.arg)))
       => dev.warned \/ last.val = "False"
    /\ (last.op = "set_snap_frames" /\ FromInt(cam.NFrames) # dev.arg
            /\ logic.module_state = "idle")
       => last.logged \in {"warning", "error"} \/ last.val = "False"
    /\ (last.op = "set_exposure" /\ last.kind = "return"
            /\ ~TLE(Ticks(2 * cam.NIntegFrames - 1, hardware_time(cam)), Twice(dev.arg)))
       => dev.warned \/ last.val = "False"

MaxBufFrames == 2

row_size == 32

\* an n-dimensional array: its shape and its elements by 0-based index tuple
Indices(shape) ==
    CASE Len(shape) = 1 -> {<<a>> : a \in 0 .. shape[1] - 1}
      [] Len(shape) = 2 -> (0 .. shape[1] - 1) \X (0 .. shape[2] - 1)
      [] Len(shape) = 3 -> (0 .. shape[1] - 1) \X (0 .. shape[2] - 1) \X (0 .. shape[3] - 1)
      [] Len(shape) = 4 -> (0 .. shape[1] - 1) \X (0 .. shape[2] - 1) \X (0 .. shape[3] - 1) \X (0 .. shape[4] - 1)

\* position of an index tuple in the row-major (C order) flattening of the array
FlatIndex(shape, ix) ==
    CASE Len(shape) = 1 -> ix[1]
      [] Len(shape) = 2 -> ix[1] * shape[2] + ix[2]
      [] Len(shape) = 3 -> (ix[1] * shape[2] + ix[2]) * shape[3] + ix[3]
      [] Len(shape) = 4 -> ((ix[1] * shape[2] + ix[2]) * shape[3] + ix[3]) * shape[4] + ix[4]

\* the index tuple found at a position of the row-major flattening
Unflatten(shape, i) ==
    CASE Len(shape) = 1 -> <<i>>
      [] Len(shape) = 2 -> <<i \div shape[2], i % shape[2]>>
      [] Len(shape) = 3 -> <<i \div (shape[2] * shape[3]), (i \div shape[3]) % shape[2], i % shape[3]>>
      [] Len(shape) = 4 -> <<i \div (shape[2] * shape[3] * shape[4]), (i \div (shape[3] * shape[4])) % shape[2], (i \div shape[4]) % shape[3], i % shape[4]>>

\* a 1-d numpy array holding the elements of a sequence
Array1(data) == [shape |-> <<Len(data)>>, at |-> [ix \in Indices(<<Len(data)>>) |-> data[ix[1] + 1]]]

\* number of elements of an array of the given shape
Count(shape) ==
    CASE Len(shape) = 1 -> shape[1]
      [] Len(shape) = 2 -> shape[1] * shape[2]
      [] Len(shape) = 3 -> shape[1] * shape[2] * shape[3]
      [] Len(shape) = 4 -> shape[1] * shape[2] * shape[3] * shape[4]

\* numpy.ndarray.size
Size(a) == Count(a.shape)

Raises(exc) == [kind |-> "raise", val |-> exc]

Returns(v) == [kind |-> "return", val |-> v]

\* numpy.ndarray.reshape: same elements in the same row-major order, new shape;
\* a shape with another number of elements is a ValueError
reshape(a, shape) ==
    IF Count(shape) # Size(a) THEN Raises("ValueError")
    ELSE Returns([shape |-> shape, at |-> [ix \in Indices(shape) |-> a.at[Unflatten(a.shape, FlatIndex(shape, ix))]]])

\* numpy.pad(a, ((0, 0), (0, n))): n zeros appended to every row of a 2-d array
pad(a, n) == [shape |-> <<a.shape[1], a.shape[2] + n>>, at |-> [ix \in Indices(<<a.shape[1], a.shape[2] + n>>) |-> IF ix[2] < a.shape[2] THEN a.at[ix] ELSE 0]]

\* the index tuple or shape t with its entries i and j (1-based) exchanged
Exchange(t, i, j) == [n \in 1 .. Len(t) |-> IF n = i THEN t[j] ELSE IF n = j THEN t[i] ELSE t[n]]

\* numpy.swapaxes(a, i - 1, j - 1)
swapaxes(a, i, j) == [shape |-> Exchange(a.shape, i, j), at |-> [ix \in Indices(Exchange(a.shape, i, j)) |-> a.at[Exchange(ix, i, j)]]]

\* BufferToFrames leaving the frame axis in front of the counter axis
BufferToFrames_frame_major(data, num_pixels, num_counters) ==
    IF num_pixels * num_counters = 0 THEN Raises("ZeroDivisionError")
    ELSE IF Size(data) % (num_pixels * num_counters) # 0 THEN Raises("ValueError")
    ELSE LET num_full_rows == (num_pixels + row_size - 1) \div row_size
             all_flat_frames == reshape(data, <<Size(data) \div num_pixels, num_pixels>>)
         IN IF all_flat_frames.kind = "raise" THEN all_flat_frames
            ELSE LET num_frames == all_flat_frames.val.shape[1] \div num_counters
                     num_pad_pixels == row_size * num_full_rows - num_pixels
                     all_flat_frames_padded == pad(all_flat_frames.val, num_pad_pixels)
                     frames ==
                         IF num_pixels % row_size = 0
                         THEN reshape(all_flat_frames.val, <<num_frames, num_counters, num_full_rows, row_size>>)
                         ELSE reshape(all_flat_frames_padded, <<num_frames, num_counters, num_full_rows, row_size>>)
                 IN IF frames.kind = "raise" THEN frames
                    ELSE Returns(swapaxes(frames.val, 3, 4))

\* BufferToFrames refusing every buffer whose images are not whole rows
BufferToFrames_whole_rows(data, num_pixels, num_counters) ==
    IF num_pixels * num_counters = 0 THEN Raises("ZeroDivisionError")
    ELSE IF Size(data) % (num_pixels * num_counters) # 0 \/ num_pixels % row_size # 0 THEN Raises("ValueError")
    ELSE LET num_full_rows == (num_pixels + row_size - 1) \div row_size
             all_flat_frames == reshape(data, <<Size(data) \div num_pixels, num_pixels>>)
         IN IF all_flat_frames.kind = "raise" THEN all_flat_frames
            ELSE LET num_frames == all_flat_frames.val.shape[1] \div num_counters
                     num_pad_pixels == row_size * num_full_rows - num_pixels
                     all_flat_frames_padded == pad(all_flat_frames.val, num_pad_pixels)
                     frames ==
                         IF num_pixels % row_size = 0
                         THEN reshape(all_flat_frames.val, <<num_frames, num_counters, num_full_rows, row_size>>)
                         ELSE reshape(all_flat_frames_padded, <<num_frames, num_counters, num_full_rows, row_size>>)
                 IN IF frames.kind = "raise" THEN frames
                    ELSE Returns(swapaxes(swapaxes(frames.val, 1, 2), 3, 4))

\* SPC3.BufferToFrames: data is a 1-d array
BufferToFrames(data, num_pixels, num_counters) ==
    IF num_pixels * num_counters = 0 THEN Raises("ZeroDivisionError")
    ELSE IF Size(data) % (num_pixels * num_counters) # 0 THEN Raises("ValueError")
    ELSE LET num_full_rows == (num_pixels + row_size - 1) \div row_size
             all_flat_frames == reshape(data, <<Size(data) \div num_pixels, num_pixels>>)
         IN IF all_flat_frames.kind = "raise" THEN all_flat_frames
            ELSE LET num_frames == all_flat_frames.val.shape[1] \div num_counters
                     num_pad_pixels == row_size * num_full_rows - num_pixels
                     all_flat_frames_padded == pad(all_flat_frames.val, num_pad_pixels)
                     frames ==
                         IF num_pixels % row_size = 0
                         THEN reshape(all_flat_frames.val, <<num_frames, num_counters, num_full_rows, row_size>>)
                         ELSE reshape(all_flat_frames_padded, <<num_frames, num_counters, num_full_rows, row_size>>)
                 IN IF frames.kind = "raise" THEN frames
                    ELSE Returns(swapaxes(swapaxes(frames.val, 1, 2), 3, 4))

\* the 8 bytes every .spc3 file starts with (0x4d5044ff04000000, 4d on byte 0)
SPC3_SIGNATURE == <<77, 80, 68, 255, 4, 0, 0, 0>>

\* the byte of a file at offset b of its pixel data
PayloadByte(b) == (b % 251) + 1

\* the metadata section as the camera library writes it (SaveImgDisk): offset in
\* the section, number of bytes, field; multibyte fields are little-endian
MetadataLayout ==
    <<<<100, 1, "N_rows">>, <<101, 1, "N_cols">>, <<102, 1, "bit_x_pix">>,
      <<103, 1, "N_counters">>, <<104, 2, "HwIntTime">>, <<106, 2, "SummedFrames">>,
      <<108, 1, "DeadTimeCorrectionON">>, <<109, 1, "GateDuty_C1">>, <<110, 2, "HoldOff">>,
      <<112, 1, "BKGsubON">>, <<113, 1, "C1_2_signed">>, <<114, 4, "N_frames">>,
      <<118, 1, "ImgAveraged">>, <<119, 1, "Caveraged">>, <<120, 2, "N_ave">>,
      <<122, 1, "GateDuty_C2">>, <<123, 1, "GateDuty_C3">>, <<124, 2, "Frames_x_syncIn">>,
      <<126, 2, "N_pix">>>>

Pow256(j) == CASE j = 0 -> 1 [] j = 1 -> 256 [] j = 2 -> 65536 [] j = 3 -> 16777216

\* the byte at offset o of a file: 8 signature bytes, 1024 bytes of metadata (the
\* strings and the unused bytes are left zero), then the pixel data
ByteAt(file, o) ==
    IF o < 8 THEN file.signature[o + 1]
    ELSE IF o >= 1024 + 8 THEN PayloadByte(o - (1024 + 8))
    ELSE LET m == o - 8
             hit == {e \in {MetadataLayout[i] : i \in DOMAIN MetadataLayout} :
                        e[1] <= m /\ m < e[1] + e[2]}
         IN IF hit = {} THEN 0
            ELSE (LET e == CHOOSE e \in hit : TRUE
                  IN (file[e[3]] \div Pow256(m - e[1])) % 256)

\* number of bytes of a file
FileLength(file) == 1024 + 8 + file.payload

\* the little-endian unsigned integer held by the n bytes at offset o
BytesLE(file, o, n) ==
    LET RECURSIVE sum(_)
        sum(j) == IF j = n THEN 0 ELSE ByteAt(file, o + j) * Pow256(j) + sum(j + 1)
    IN sum(0)

\* numpy.fromfile(inf, offset=..., count=count, dtype=...): at most count items
\* of itemsize bytes (little-endian), fewer when the file ends before
fromfile(file, offset, count, itemsize) ==
    LET n == Min(count, (FileLength(file) - offset) \div itemsize)
    IN [shape |-> <<n>>, at |-> [ix \in Indices(<<n>>) |-> BytesLE(file, offset + ix[1] * itemsize, itemsize)]]

\* the reads of a decoder that takes SummedFrames for a single byte, so that
\* every later field is read one byte early
FieldReads_one_byte_early ==
    <<<<"file_meta_stuff", 8>>, <<"camera_id", 10>>, <<"SN", 32>>, <<"FW_VER", 2>>,
      <<"custom_ver", 1>>, <<"date_time", 20>>, <<"", 35>>,
      <<"N_rows", 1>>, <<"N_cols", 1>>, <<"bit_x_pix", 1>>, <<"N_counters", 1>>,
      <<"HwIntTime", 2>>, <<"SummedFrames", 1>>, <<"DeadTimeCorrectionON", 1>>,
      <<"GateDuty_C1", 1>>, <<"HoldOff", 2>>, <<"BKGsubON", 1>>, <<"C1_2_signed", 1>>,
      <<"N_frames", 4>>, <<"ImgAveraged", 1>>, <<"Caveraged", 1>>, <<"N_ave", 2>>,
      <<"GateDuty_C2", 1>>, <<"GateDuty_C3", 1>>, <<"Frames_x_syncIn", 2>>, <<"N_pix", 2>>>>

\* ReadSPC3DataFile as far as N_pix: the reads in the order of the code, each
\* with the number of bytes it consumes (the unnamed one skips unused bytes)
FieldReads ==
    <<<<"file_meta_stuff", 8>>, <<"camera_id", 10>>, <<"SN", 32>>, <<"FW_VER", 2>>,
      <<"custom_ver", 1>>, <<"date_time", 20>>, <<"", 35>>,
      <<"N_rows", 1>>, <<"N_cols", 1>>, <<"bit_x_pix", 1>>, <<"N_counters", 1>>,
      <<"HwIntTime", 2>>, <<"SummedFrames", 2>>, <<"DeadTimeCorrectionON", 1>>,
      <<"GateDuty_C1", 1>>, <<"HoldOff", 2>>, <<"BKGsubON", 1>>, <<"C1_2_signed", 1>>,
      <<"N_frames", 4>>, <<"ImgAveraged", 1>>, <<"Caveraged", 1>>, <<"N_ave", 2>>,
      <<"GateDuty_C2", 1>>, <<"GateDuty_C3", 1>>, <<"Frames_x_syncIn", 2>>, <<"N_pix", 2>>>>

\* position of the file object when the read of a field starts: every earlier
\* read has advanced it by its number of bytes
PositionAt(name) ==
    LET RECURSIVE pos(_)
        pos(i) == IF FieldReads[i][1] = name THEN 0 ELSE FieldReads[i][2] + pos(i + 1)
    IN pos(1)

\* readfield(inf, count, c_type) for the read of the named field
readfield(file, name) ==
    LET n == FieldReads[CHOOSE i \in 1 .. Len(FieldReads) : FieldReads[i][1] = name][2]
    IN BytesLE(file, PositionAt(name), n)

\* the header fields ReadSPC3DataFile reads from offset 108 to N_pix; times are
\* kept in the unit of the file (HwIntTime in 10 ns, HoldOff in ns)
HeaderFields ==
    {"N_rows", "N_cols", "bit_x_pix", "N_counters", "HwIntTime", "SummedFrames",
     "DeadTimeCorrectionON", "GateDuty_C1", "HoldOff", "BKGsubON", "C1_2_signed",
     "N_frames", "ImgAveraged", "Caveraged", "N_ave", "GateDuty_C2", "GateDuty_C3",
     "Frames_x_syncIn", "N_pix"}

\* the four fields the code keeps as the truth of value != 0
FlagFields == {"DeadTimeCorrectionON", "BKGsubON", "C1_2_signed", "ImgAveraged"}

AsRead(name, value) == IF name \in FlagFields THEN value # 0 ELSE value

HeaderOf(file) == [name \in HeaderFields |-> AsRead(name, readfield(file, name))]

\* ReadSPC3DataFile taking rows x columns of the header for the number of
\* pixels of an image
ReadSPC3DataFile_rows_cols(file) ==
    LET file_meta_stuff == [o \in 0 .. 7 |-> ByteAt(file, o)]
        header == HeaderOf(file)
        data_count == header.N_cols * header.N_rows * header.N_frames * header.N_counters
    IN IF header.bit_x_pix # 16 /\ header.bit_x_pix # 8 THEN Raises("ValueError")
       ELSE LET data == fromfile(file, 1024 + 8, data_count, header.bit_x_pix \div 8)
                frames == BufferToFrames(data, header.N_rows * header.N_cols, header.N_counters)
            IN IF frames.kind = "raise" THEN frames
               ELSE Returns([frames |-> frames.val, header |-> header])

\* SPC3.ReadSPC3DataFile: the signature bytes are read into file_meta_stuff and
\* not looked at again
ReadSPC3DataFile(file) ==
    LET file_meta_stuff == [o \in 0 .. 7 |-> ByteAt(file, o)]
        header == HeaderOf(file)
        data_count == header.N_cols * header.N_rows * header.N_frames * header.N_counters
    IN IF header.bit_x_pix # 16 /\ header.bit_x_pix # 8 THEN Raises("ValueError")
       ELSE LET data == fromfile(file, 1024 + 8, data_count, header.bit_x_pix \div 8)
                frames == BufferToFrames(data, header.N_pix, header.N_counters)
            IN IF frames.kind = "raise" THEN frames
               ELSE Returns([frames |-> frames.val, header |-> header])

\* SPC3_Qudi.read_spc3_file
read_spc3_file(file) == ReadSPC3DataFile(file)

\* SPC3_Qudi.load_acquisition_file: the new viewer state and the returned bool
load_acquisition_file(loaded, file) ==
    LET r == IF file.kind = "spc3" THEN read_spc3_file(file) ELSE Raises("OSError")
        isnpy == file.kind = "npy"
    IN IF file.kind = "unreadable" \/ (~isnpy /\ r.kind = "raise")
       THEN [loaded |-> loaded, val |-> FALSE]
       ELSE LET loaded_frames == IF isnpy THEN file.array ELSE r.val.frames
                loaded_header == IF isnpy THEN <<>> ELSE r.val.header
                l1 == [set |-> TRUE, frames |-> loaded_frames, header |-> loaded_header,
                       current_frame_index |-> 0, filepath |-> file.path]
            IN [loaded |-> l1, val |-> Len(loaded_frames.shape) = 4]

\* inputs: flat buffers, each element holding its own position + 1
PixelCounts == {1, 32, 33, 67}

CounterCounts == 1 .. 3

BufferInputs ==
    {[kind |-> "buffer", data |-> Array1([i \in 1 .. (f * P * C + e) |-> i]),
      num_pixels |-> P, num_counters |-> C] :
        <<P, C, f, e>> \in {t \in PixelCounts \X CounterCounts \X (0 .. MaxBufFrames) \X {0, 1, 33} :
                               t[4] \in {0, 1, t[1]}}}

\* inputs: the values of the metadata fields that do not decide the shape
Acquisitions ==
    {[HwIntTime |-> 1040, SummedFrames |-> 1, DeadTimeCorrectionON |-> 1, GateDuty_C1 |-> 50,
      HoldOff |-> 300, BKGsubON |-> 0, C1_2_signed |-> 1, ImgAveraged |-> 0, Caveraged |-> 2,
      N_ave |-> 3, GateDuty_C2 |-> 40, GateDuty_C3 |-> 30, Frames_x_syncIn |-> 5],
     [HwIntTime |-> 5200, SummedFrames |-> 1000, DeadTimeCorrectionON |-> 0, GateDuty_C1 |-> 100,
      HoldOff |-> 0, BKGsubON |-> 1, C1_2_signed |-> 0, ImgAveraged |-> 1, Caveraged |-> 1,
      N_ave |-> 1000, GateDuty_C2 |-> 0, GateDuty_C3 |-> 0, Frames_x_syncIn |-> 1]}

\* inputs: .spc3 files with a complete header; the payload is as long as the
\* header announces, one byte or one frame shorter or longer, or as long as a
\* writer storing N_pix elements per image makes it; files with another
\* signature have one counter, and the second set of metadata values comes
\* with files of the writer's length
Geometries == {<<32, 1, 32>>, <<32, 2, 33>>}

FileSizes(g, es, C, F) ==
    {n \in {g[1] * g[2] * F * C * es + d : d \in {0 - g[3] * C * es, 0 - 1, 0, 1, g[3] * C * es}}
              \cup {g[3] * F * C * es} : n >= 0}

Spc3Files ==
    {x \in UNION {{[kind |-> "spc3", path |-> "acquisition.spc3", signature |-> sig,
                    N_rows |-> g[1], N_cols |-> g[2], N_pix |-> g[3], bit_x_pix |-> b,
                    N_counters |-> C, N_frames |-> F, payload |-> n] @@ a :
                       n \in FileSizes(g, IF b = 16 THEN 2 ELSE 1, C, F), a \in Acquisitions} :
                  <<sig, g, b, C, F>> \in {SPC3_SIGNATURE, <<0, 0, 0, 0, 0, 0, 0, 0>>} \X Geometries
                                            \X {8, 16, 12} \X CounterCounts \X (1 .. MaxBufFrames)} :
        /\ x.signature # SPC3_SIGNATURE => (x.N_counters = 1 /\ x.SummedFrames = 1)
        /\ x.payload # x.N_pix * x.N_frames * x.N_counters * (IF x.bit_x_pix = 16 THEN 2 ELSE 1)
              => x.SummedFrames = 1}

\* inputs: .npy files holding an array of 4 dimensions (as saved after a snap) or fewer
NpyFiles ==
    {[kind |-> "npy", path |-> "snap.npy", array |-> reshape(Array1([i \in 1 .. 4 |-> i]), shape).val] :
        shape \in {<<1, 2, 2, 1>>, <<2, 2, 1>>, <<2, 2>>}}

DataInputs == BufferInputs \cup Spc3Files \cup NpyFiles

InitData ==
    /\ InitObjects
    /\ cam.camera_mode = "Normal"
    /\ cam.NFrames = 1
    /\ \E i \in DataInputs : io = [InitIo EXCEPT !.input = i]

Spc_BufferToFrames ==
    /\ io.input.kind = "buffer"
    /\ LET r == BufferToFrames(io.input.data, io.input.num_pixels, io.input.num_counters)
       IN io' = [io EXCEPT !.result = [call |-> "BufferToFrames", kind |-> r.kind, val |-> r.val]]
    /\ UNCHANGED <<cam, spc3, dev, active, last, logic, thr, lock>>

Spc_ReadSPC3DataFile ==
    /\ io.input.kind = "spc3"
    /\ LET r == ReadSPC3DataFile(io.input)
       IN io' = [io EXCEPT !.result = [call |-> "ReadSPC3DataFile", kind |-> r.kind, val |-> r.val]]
    /\ UNCHANGED <<cam, spc3, dev, active, last, logic, thr, lock>>

Hw_load_acquisition_file ==
    /\ active
    /\ io.input.kind \in {"spc3", "npy"}
    /\ LET r == load_acquisition_file(io.loaded, io.input)
       IN io' = [io EXCEPT !.loaded = r.loaded,
                           !.result = [call |-> "load_acquisition_file", kind |-> "return", val |-> r.val]]
    /\ UNCHANGED <<cam, spc3, dev, active, last, logic, thr, lock>>

NextData ==
    \/ Hw_on_activate
    \/ Spc_BufferToFrames
    \/ Spc_ReadSPC3DataFile
    \/ Hw_load_acquisition_file

SpecData == InitData /\ [][NextData]_vars

\* ---------------------------------------------------------------------------
\* C17: BufferToFrames puts every input element at the right place. For a flat
\* buffer of F frames x C counters x P pixels, frame-major with the counters
\* interleaved, the result has shape (C, F, 32, ceil(P/32)); the element of
\* counter c, frame f and pixel 32*r + k is data[(f*C + c)*P + 32*r + k] and is
\* found at [c][f][k][r]; every position with 32*r + k >= P holds zero.
\* ---------------------------------------------------------------------------
C17_BufferMapping ==
    (io.result.call = "BufferToFrames" /\ io.result.kind = "return") =>
        LET data == io.input.data
            P == io.input.num_pixels
            C == io.input.num_counters
            F == Size(data) \div (P * C)
            R == (P + 31) \div 32
            t == io.result.val
        IN /\ t.shape = <<C, F, 32, R>>
           /\ \A c \in 0 .. C - 1, f \in 0 .. F - 1, k \in 0 .. 31, r \in 0 .. R - 1 :
                 t.at[<<c, f, k, r>>] =
                     IF 32 * r + k < P THEN data.at[<<(f * C + c) * P + 32 * r + k>>] ELSE 0

\* 67 pixels, 3 counters, 2 frames: the last pixel of the last image is in the
\* third row, and the 29 positions after it are padding
C17_Witness ==
    /\ io.result.call = "BufferToFrames"
    /\ io.result.kind = "return"
    /\ io.input.num_pixels = 67
    /\ io.input.num_counters = 3
    /\ io.result.val.shape = <<3, 2, 32, 3>>
    /\ io.result.val.at[<<2, 1, 2, 2>>] = io.input.data.at[<<(1 * 3 + 2) * 67 + 66>>]
    /\ io.result.val.at[<<2, 1, 2, 2>>] # 0
    /\ \A k \in 3 .. 31 : io.result.val.at[<<2, 1, k, 2>>] = 0

\* ---------------------------------------------------------------------------
\* C18: BufferToFrames fails, returning no tensor, when the input length is not
\* an exact multiple of pixel_count x counter_count, and never fails when it is
\* (pixel_count >= 1, counter_count in 1..3).
\* ---------------------------------------------------------------------------
C18_MalformedRejected ==
    io.result.call = "BufferToFrames" =>
        LET malformed == Size(io.input.data) % (io.input.num_pixels * io.input.num_counters) # 0
        IN /\ malformed => (io.result.kind = "raise" /\ io.result.val = "ValueError")
           /\ ~malformed => io.result.kind = "return"

\* a buffer of whole images that does not hold a whole frame of all counters is
\* refused
C18_Witness ==
    /\ io.result.call = "BufferToFrames"
    /\ io.result.kind = "raise"
    /\ io.input.num_counters > 1
    /\ Size(io.input.data) > 0
    /\ Size(io.input.data) % io.input.num_pixels = 0
    /\ Size(io.input.data) % (io.input.num_pixels * io.input.num_counters) # 0

\* ---------------------------------------------------------------------------
\* C19: ReadSPC3DataFile validates the 8-byte signature before it uses any
\* header field: a file whose first 8 bytes differ from 0x4D5044FF04000000 is
\* rejected with an error and yields neither a header nor frames.
\* ---------------------------------------------------------------------------
C19_SignatureValidated ==
    (io.result.call = "ReadSPC3DataFile" /\ io.input.signature # SPC3_SIGNATURE) =>
        io.result.kind = "raise"

\* ---------------------------------------------------------------------------
\* C20: decoding checks the payload size exactly. ReadSPC3DataFile, and
\* load_acquisition_file on top of it, fail whenever the number of payload bytes
\* after offset 1032 differs from rows x cols x frames x counters x element
\* size of the header, and a returned tensor holds as many frames as the header
\* announces.
\* ---------------------------------------------------------------------------
C20_PayloadSizeChecked ==
    LET f == io.input
        announced == f.N_rows * f.N_cols * f.N_frames * f.N_counters * (f.bit_x_pix \div 8)
    IN /\ (io.result.call = "ReadSPC3DataFile" /\ io.result.kind = "return") =>
              (f.payload = announced /\ io.result.val.frames.shape[2] = f.N_frames)
       /\ (io.result.call = "load_acquisition_file" /\ f.kind = "spc3" /\ io.result.val) =>
              (f.payload = announced /\ io.loaded.frames.shape[2] = f.N_frames)

\* the header a decoder returns that takes each field from the given file offset
HeaderAt(file, at) ==
    [N_rows |-> BytesLE(file, at.N_rows, 1), N_cols |-> BytesLE(file, at.N_cols, 1),
     bit_x_pix |-> BytesLE(file, at.bit_x_pix, 1), N_counters |-> BytesLE(file, at.N_counters, 1),
     HwIntTime |-> BytesLE(file, at.HwIntTime, 2), SummedFrames |-> BytesLE(file, at.SummedFrames, 2),
     DeadTimeCorrectionON |-> BytesLE(file, at.DeadTimeCorrectionON, 1) # 0,
     GateDuty_C1 |-> BytesLE(file, at.GateDuty_C1, 1), HoldOff |-> BytesLE(file, at.HoldOff, 2),
     BKGsubON |-> BytesLE(file, at.BKGsubON, 1) # 0, C1_2_signed |-> BytesLE(file, at.C1_2_signed, 1) # 0,
     N_frames |-> BytesLE(file, at.N_frames, 4), ImgAveraged |-> BytesLE(file, at.ImgAveraged, 1) # 0,
     Caveraged |-> BytesLE(file, at.Caveraged, 1), N_ave |-> BytesLE(file, at.N_ave, 2),
     GateDuty_C2 |-> BytesLE(file, at.GateDuty_C2, 1), GateDuty_C3 |-> BytesLE(file, at.GateDuty_C3, 1),
     Frames_x_syncIn |-> BytesLE(file, at.Frames_x_syncIn, 2), N_pix |-> BytesLE(file, at.N_pix, 2)]

\* the first n pixel values a decoder finds that starts the payload at 1032
PayloadHead(file, n) == [i \in 0 .. n - 1 |-> BytesLE(file, 1032 + i * (BytesLE(file, 110, 1) \div 8), BytesLE(file, 110, 1) \div 8)]

\* ---------------------------------------------------------------------------
\* C21 (as amended): ReadSPC3DataFile decodes each metadata field from the file
\* offset of the library's layout (8 signature bytes, then the metadata
\* section): rows 108, columns 109, bits per pixel 110, counters 111,
\* integration cycles (2 bytes) 112, integrated frames (2 bytes) 114, dead-time
\* flag 116, gate duty C1 117, hold-off (2) 118, background flag 120, signed
\* flag 121, frame count (4) 122, averaged flag 126, averaged counter 127,
\* number averaged (2) 128, gate duty C2 130, C3 131, frames per sync pulse (2)
\* 132, pixel count (2) 134; the payload starts at offset 1032.
\* ---------------------------------------------------------------------------
C21_LayoutOffsets ==
    (io.result.call = "ReadSPC3DataFile" /\ io.result.kind = "return") =>
        /\ io.result.val.header =
              HeaderAt(io.input,
                       [N_rows |-> 108, N_cols |-> 109, bit_x_pix |-> 110, N_counters |-> 111,
                        HwIntTime |-> 112, SummedFrames |-> 114, DeadTimeCorrectionON |-> 116,
                        GateDuty_C1 |-> 117, HoldOff |-> 118, BKGsubON |-> 120, C1_2_signed |-> 121,
                        N_frames |-> 122, ImgAveraged |-> 126, Caveraged |-> 127, N_ave |-> 128,
                        GateDuty_C2 |-> 130, GateDuty_C3 |-> 131, Frames_x_syncIn |-> 132,
                        N_pix |-> 134])
        /\ LET t == io.result.val.frames
               C == t.shape[1]
               P == io.result.val.header.N_pix
               head == PayloadHead(io.input, t.shape[1] * t.shape[2] * P)
           IN \A c \in 0 .. C - 1, f \in 0 .. t.shape[2] - 1, p \in 0 .. P - 1 :
                 t.at[<<c, f, p % 32, p \div 32>>] = head[(f * C + c) * P + p]

\* a file written with 2 counters, 2 frames, 1000 integrated frames and
\* background subtraction on is decoded with these values
C21_Witness ==
    /\ io.result.call = "ReadSPC3DataFile"
    /\ io.result.kind = "return"
    /\ io.input.payload = io.input.N_pix * io.input.N_frames * io.input.N_counters * (io.input.bit_x_pix \div 8)
    /\ io.result.val.header.N_frames = 2
    /\ io.result.val.header.N_counters = 2
    /\ io.result.val.header.N_pix = 33
    /\ io.result.val.header.SummedFrames = 1000
    /\ io.result.val.header.HwIntTime = 5200
    /\ io.result.val.header.BKGsubON
    /\ ~io.result.val.header.DeadTimeCorrectionON
    /\ io.result.val.header.N_ave = 1000

\* C21 as stated: the fields after the integrated frames are decoded from the
\* offsets one lower (dead-time flag 115, gate duty C1 116, hold-off 117,
\* background flag 119, signed flag 120, frame count 121, averaged flag 125,
\* averaged counter 126, number averaged 127, gate duty C2 129, C3 130, frames
\* per sync pulse 131, pixel count 133).
C21_StatedOffsets ==
    (io.result.call = "ReadSPC3DataFile" /\ io.result.kind = "return") =>
        io.result.val.header =
            HeaderAt(io.input,
                     [N_rows |-> 108, N_cols |-> 109, bit_x_pix |-> 110, N_counters |-> 111,
                      HwIntTime |-> 112, SummedFrames |-> 114, DeadTimeCorrectionON |-> 115,
                      GateDuty_C1 |-> 116, HoldOff |-> 117, BKGsubON |-> 119, C1_2_signed |-> 120,
                      N_frames |-> 121, ImgAveraged |-> 125, Caveraged |-> 126, N_ave |-> 127,
                      GateDuty_C2 |-> 129, GateDuty_C3 |-> 130, Frames_x_syncIn |-> 131,
                      N_pix |-> 133])

\* a file as the library writes it for a tensor: signature, metadata, and
\* pixel_count elements per image with the counters interleaved
WrittenInLayout(file) ==
    /\ file.kind = "spc3"
    /\ file.signature = SPC3_SIGNATURE
    /\ file.bit_x_pix \in {8, 16}
    /\ file.payload = file.N_pix * file.N_frames * file.N_counters * (file.bit_x_pix \div 8)

\* the value the writer stored for pixel p of frame f of counter c
WrittenPixel(file, c, f, p) ==
    LET es == file.bit_x_pix \div 8
        i == (f * file.N_counters + c) * file.N_pix + p
    IN IF es = 1 THEN PayloadByte(i) ELSE PayloadByte(2 * i) + 256 * PayloadByte(2 * i + 1)

\* ---------------------------------------------------------------------------
\* C22: file round trip. A frame tensor written in the documented layout and
\* read back with ReadSPC3DataFile yields the identical tensor and identical
\* header fields, for pixel counts that are multiples of 32 and for pixel
\* counts that are not (rows x cols of the header then exceeds the pixel
\* count), and for 1, 2 and 3 counters.
\* ---------------------------------------------------------------------------
C22_FileRoundTrip ==
    (io.result.call = "ReadSPC3DataFile" /\ WrittenInLayout(io.input)) =>
        LET file == io.input
            R == (file.N_pix + 31) \div 32
        IN /\ io.result.kind = "return"
           /\ io.result.val.frames.shape = <<file.N_counters, file.N_frames, 32, R>>
           /\ \A c \in 0 .. file.N_counters - 1, f \in 0 .. file.N_frames - 1, k \in 0 .. 31, r \in 0 .. R - 1 :
                 io.result.val.frames.at[<<c, f, k, r>>] =
                     IF 32 * r + k < file.N_pix THEN WrittenPixel(file, c, f, 32 * r + k) ELSE 0
           /\ \A n \in DOMAIN io.result.val.header :
                 io.result.val.header[n] =
                     IF n \in {"DeadTimeCorrectionON", "BKGsubON", "C1_2_signed", "ImgAveraged"}
                     THEN file[n] # 0 ELSE file[n]

\* 33 pixels per image under a header of 32 x 2, three counters, 16 bit
C22_Witness ==
    /\ io.result.call = "ReadSPC3DataFile"
    /\ WrittenInLayout(io.input)
    /\ io.result.kind = "return"
    /\ io.input.N_pix = 33
    /\ io.input.N_rows * io.input.N_cols > io.input.N_pix
    /\ io.input.N_counters = 3
    /\ io.input.N_frames = 2
    /\ io.input.bit_x_pix = 16
    /\ io.result.val.frames.at[<<2, 1, 0, 1>>] = WrittenPixel(io.input, 2, 1, 32)
    /\ io.result.val.frames.at[<<2, 1, 1, 1>>] = 0

-----------------------------------------------------------------------------
(* SpecImg: the frames of the live view and the background reference *)

\* get_acquired_data has just handed a live frame back, in counts
ReturnedCounts ==
    /\ last.op = "get_acquired_data"
    /\ last.kind = "return"
    /\ dev.delivered # NoImage
    /\ cam.display_units = "counts"

\* C23: with background subtraction enabled and a reference of the frame's
\* size, every pixel get_acquired_data returns in counts is the delivered pixel
\* minus the reference pixel where the frame is the brighter, and 0 where the
\* reference is: never negative, never wrapped around to a large value
C23_SubtractionClamped ==
    (/\ ReturnedCounts
     /\ cam.background_subtraction_enabled
     /\ cam.background_image # NoImage
     /\ Len(cam.background_image) = Len(dev.delivered))
    => /\ dev.image.units = "counts"
       /\ Len(dev.image.px) = Len(dev.delivered)
       /\ \A i \in 1 .. Len(dev.delivered) :
             /\ dev.image.px[i] >= 0
             /\ dev.image.px[i] <= dev.delivered[i]
             /\ dev.image.px[i] = IF dev.delivered[i] >= cam.background_image[i]
                                  THEN dev.delivered[i] - cam.background_image[i]
                                  ELSE 0

\* one pixel darker than the reference, the other brighter
C23_Witness ==
    /\ ReturnedCounts
    /\ cam.background_subtraction_enabled
    /\ cam.background_image = <<2, 0>>
    /\ dev.delivered = <<1, 2>>
    /\ dev.image.px = <<0, 2>>

\* C24: with subtraction disabled, whatever captures, enables and disables came
\* before, get_acquired_data in counts returns the delivered frame pixel for
\* pixel; disable_background_subtraction clears the flag, and neither it nor
\* enable_background_subtraction changes the stored reference
C24_RawWhenDisabled ==
    ReturnedCounts /\ ~cam.background_subtraction_enabled
    => dev.image = Counts(2, dev.delivered)

C24_ReferenceKept ==
    /\ last'.op = "disable_background_subtraction"
       => /\ ~cam'.background_subtraction_enabled
          /\ cam'.background_image = cam.background_image
    /\ last'.op = "enable_background_subtraction"
       => cam'.background_image = cam.background_image

C24_DisableRestoresRaw == [](C24_RawWhenDisabled) /\ [][C24_ReferenceKept]_vars

\* a reference is stored, subtraction is off, and the frame comes back as delivered
C24_Witness ==
    /\ ReturnedCounts
    /\ ~cam.background_subtraction_enabled
    /\ cam.background_image = <<2, 2>>
    /\ dev.delivered = <<1, 2>>
    /\ dev.image.px = <<1, 2>>

\* get_acquired_data has just handed a live frame back, in counts per second
ReturnedCps ==
    /\ last.op = "get_acquired_data"
    /\ last.kind = "return"
    /\ dev.delivered # NoImage
    /\ cam.display_units = "cps"

\* the frame the scaling starts from: the delivered one, less the reference
\* when subtraction is enabled
Unscaled(i) ==
    IF cam.background_subtraction_enabled /\ cam.background_image # NoImage
    THEN Max(dev.delivered[i] - cam.background_image[i], 0)
    ELSE dev.delivered[i]

\* C25: in 'cps' every pixel get_acquired_data returns is the (subtracted)
\* pixel divided by the exposure get_exposure reports for the active mode:
\* NIntegFrames x 1040 x 10 ns in Normal mode, NIntegFrames x
\* _HardwareIntegration x 10 ns in Advanced mode
C25_CpsDividesByExposure ==
    ReturnedCps
    => /\ dev.image.per = get_exposure(W0).w.cam.exposure
       /\ \A i \in 1 .. Len(dev.delivered) :
             dev.image.px[i] = CountsPerSecond(Unscaled(i), get_exposure(W0).w.cam.exposure)

-----------------------------------------------------------------------------
(* Spec: background capture and teardown *)

\* where in the log of the last operation the library call of that name stands
IssuedAt(call) == {k \in 1 .. Len(dev.log) : dev.log[k].call = call}

\* C26: capture_background_image leaves the mode it found, Idle or Live,
\* whether it returns True or False, and every LiveSetModeON it issues is
\* followed by a LiveSetModeOFF
C26_CaptureRestoresMode ==
    last.op = "capture_background_image"
    => /\ cam.live = last.pre.live
       /\ \A k \in IssuedAt("LiveSetModeON") :
             \E j \in IssuedAt("LiveSetModeOFF") : j > k

-----------------------------------------------------------------------------
(* SpecImg: the background reference *)

\* s / n rounded to the nearest integer, a tie to the even one
Rounded(s, n) ==
    LET q == s \div n
        twice == 2 * (s % n)
    IN IF twice < n THEN q
       ELSE IF twice > n THEN q + 1
       ELSE IF q % 2 = 0 THEN q ELSE q + 1

SumOver(frames, i) ==
    LET RECURSIVE total(_)
        total(k) == IF k = 0 THEN 0 ELSE frames[k][i] + total(k - 1)
    IN total(Len(frames))

\* C27: after a capture of n frames every pixel of the background reference
\* is the sum of that pixel over the n frames, divided by n and rounded to the
\* nearest integer
C27_ReferenceIsRoundedMean ==
    (last.op = "capture_background_image" /\ last.val = "True")
    => \A i \in 1 .. FramePixels :
          cam.background_image[i] = Rounded(SumOver(dev.captured, i), Len(dev.captured))

-----------------------------------------------------------------------------
(* SpecCaps: CameraLogic over a camera module without background operations *)

\* C28: when the camera module lacks capture_background_image or
\* enable_background_subtraction, the four background operations of CameraLogic
\* return without raising, report a failure (False, or a logged warning or
\* error), and change neither the module state nor the camera.  Switching
\* subtraction off on a module that can do it is no failure and needs no report.
SwitchedOff ==
    /\ last'.op \in {"disable_background_subtraction", "toggle_background_subtraction(False)"}
    /\ "disable_background_subtraction" \notin Lacking

C28_Degrades ==
    (/\ Lacking \cap {"capture_background_image", "enable_background_subtraction"} # {}
     /\ last'.op \in {"capture_background_image", "enable_background_subtraction",
                      "disable_background_subtraction",
                      "toggle_background_subtraction(True)",
                      "toggle_background_subtraction(False)"})
    => /\ last'.kind = "return"
       /\ \/ last'.val = "False"
          \/ last'.logged \in {"warning", "error"}
          \/ SwitchedOff
       /\ logic'.module_state = logic.module_state
       /\ cam' = cam
       /\ dev'.log = <<>>

C28_MissingCapabilityDegrades == [][C28_Degrades]_vars

-----------------------------------------------------------------------------
(* SpecApply: parameters written, applied and used *)

AcquisitionStarts == {"LiveSetModeON", "SnapPrepare", "ContAcqToFileStart"}

\* C29: when an operation issues an acquisition start, no parameters are
\* written to the device and still waiting for a successful ApplySettings
C29_AppliedBeforeStart ==
    (\E k \in 1 .. Len(dev.log) : dev.log[k].call \in AcquisitionStarts)
    => ~dev.pending

-----------------------------------------------------------------------------
(* Spec: teardown *)

\* C30: on_deactivate issues LiveSetModeOFF exactly when Live was active and
\* ContAcqToFileStop exactly when Continuous was active, then Destr after
\* both, and leaves the three mode flags false
C30_TeardownReturnsToIdle ==
    last.op = "on_deactivate"
    => /\ (IssuedAt("LiveSetModeOFF") # {}) = last.pre.live
       /\ (IssuedAt("ContAcqToFileStop") # {}) = last.pre.continuous
       /\ IssuedAt("Destr") = {Len(dev.log)}
       /\ ~cam.live /\ ~cam.acquiring /\ ~cam.continuous

-----------------------------------------------------------------------------
(* SpecLogic: the module state of CameraLogic and the modes of the camera *)

\* C31: the module state of CameraLogic is 'locked' exactly when the camera
\* has Live or Continuous active, and 'idle' exactly when it has neither
C31_LogicAgreesWithDevice ==
    (logic.module_state = "locked") <=> (cam.live \/ cam.continuous)

-----------------------------------------------------------------------------
(* Spec: a start that the library refuses *)

\* C32: when LiveSetModeON raises inside start_live_acquisition the flag _live
\* is false after the call, and when ContAcqToFileStart raises inside
\* continuous_acquisition the flag _continuous is false after the call
C32_FailedStartLeavesIdle ==
    /\ (last.op = "start_live_acquisition" /\ last.kind = "raise") => ~cam.live
    /\ (last.op = "continuous_acquisition" /\ last.kind = "raise") => ~cam.continuous

-----------------------------------------------------------------------------
(* SpecPar: a setter that the library refuses *)

StoredParameters(c) ==
    <<c.NIntegFrames, c.HardwareIntegration, c.NFrames, c.exposure>>

ParameterSetters ==
    {"set_exposure", "set_binning", "set_hardware_integration", "set_snap_frames"}

\* C33: when SetCameraPar or ApplySettings raises inside set_exposure,
\* set_binning, set_hardware_integration or CameraLogic.set_snap_frames, the
\* stored _NIntegFrames, _HardwareIntegration, _NFrames and _exposure keep the
\* values they had before the call
C33_ParametersKeptOnError ==
    [][(last'.op \in ParameterSetters /\ Len(dev'.log) > 0
          /\ dev'.log[Len(dev'.log)].ec # 0)
        => StoredParameters(cam') = StoredParameters(cam)]_vars

-----------------------------------------------------------------------------
(* SpecSize: the reported image size over activation cycles, with the
   Half_array option disabled or enabled *)

get_size(w) == <<Nrows, w.cam.Ncols>>

\* rows and columns of the frames BufferToFrames makes of one image per counter
FrameShape(num_pixels, num_counters) ==
    LET r == BufferToFrames(Array1([i \in 1 .. num_pixels * num_counters |-> 0]),
                            num_pixels, num_counters)
    IN IF r.kind = "return" THEN <<r.val.shape[3], r.val.shape[4]>> ELSE <<>>

Hw_get_size ==
    /\ Do("get_size", Ret(W0, "size"))
    /\ io' = [io EXCEPT !.result = [call |-> "get_size", kind |-> "return",
                                    val |-> get_size(W0)]]
    /\ UNCHANGED <<active, logic, thr, lock>>

InitSize ==
    /\ InitObjectsWith({[c EXCEPT !.Half_array = h] : c \in InitCam, h \in {0, 1}})
    /\ io = InitIo

NextSize ==
    \/ Hw_on_activate
    \/ Hw_on_deactivate
    \/ Hw_get_size

SpecSize == InitSize /\ [][NextSize]_vars

\* C34: on an activated camera, after any number of on_activate / on_deactivate
\* cycles, get_size returns (32, 64) when Half_array is disabled and (32, 32)
\* when it is enabled, which is the row/column shape of the frames
\* BufferToFrames produces for the configured pixel count
C34_SizeStable ==
    (active /\ last.op = "get_size") =>
        /\ io.result.val = IF cam.Half_array = 0 THEN <<32, 64>> ELSE <<32, 32>>
        /\ io.result.val = FrameShape(spc3.num_pixels, spc3.num_counters)

-----------------------------------------------------------------------------
(* SpecView: the viewer of SPC3_Qudi, loading one file after another and
   stepping through the frames of the loaded one *)

\* SPC3_Qudi.get_loaded_frame_count
get_loaded_frame_count(loaded) ==
    IF loaded.set THEN loaded.frames.shape[2] ELSE 0

\* SPC3_Qudi.get_current_frame_index
get_current_frame_index(loaded) ==
    IF loaded.set THEN loaded.current_frame_index ELSE 0

\* the 2-d array a[0, frame_index, :, :] of a 4-d array a
FrameAt(a, frame_index) ==
    [shape |-> <<a.shape[3], a.shape[4]>>,
     at |-> [ix \in Indices(<<a.shape[3], a.shape[4]>>) |->
                a.at[<<0, frame_index, ix[1], ix[2]>>]]]

\* SPC3_Qudi.get_loaded_frame: indexing an array of fewer than 4 dimensions
\* with [0, frame_index, :, :] is an IndexError
get_loaded_frame(loaded, frame_index) ==
    IF ~loaded.set THEN [loaded |-> loaded, kind |-> "None", val |-> <<>>]
    ELSE IF frame_index < 0 \/ frame_index >= loaded.frames.shape[2]
         THEN [loaded |-> loaded, kind |-> "None", val |-> <<>>]
    ELSE IF Len(loaded.frames.shape) < 4
         THEN [loaded |-> loaded, kind |-> "IndexError", val |-> <<>>]
    ELSE [loaded |-> [loaded EXCEPT !.current_frame_index = frame_index],
          kind |-> "frame", val |-> FrameAt(loaded.frames, frame_index)]

\* inputs: two readable .spc3 files of one and two frames, one with an invalid
\* header, a file that cannot be read, and the .npy files
ViewSpc3Files ==
    {[x EXCEPT !.path = IF x.bit_x_pix = 12 THEN "invalid.spc3"
                        ELSE IF x.N_frames = 1 THEN "one.spc3" ELSE "two.spc3"] :
        x \in {y \in Spc3Files :
                 /\ y.signature = SPC3_SIGNATURE /\ y.N_cols = 1 /\ y.N_counters = 1
                 /\ y.HwIntTime = 1040
                 /\ y.bit_x_pix \in {8, 12}
                 /\ y.bit_x_pix = 12 => y.N_frames = 1
                 /\ y.payload = y.N_pix * y.N_frames}}

ViewFiles ==
    ViewSpc3Files \cup NpyFiles \cup {[kind |-> "unreadable", path |-> "missing.npy"]}

FrameIndices == (0 - 1) .. MaxBufFrames

Vw_load_acquisition_file ==
    /\ active
    /\ \E file \in ViewFiles :
          LET r == load_acquisition_file(io.loaded, file)
          IN io' = [input |-> file, loaded |-> r.loaded,
                    result |-> [call |-> "load_acquisition_file", kind |-> "return",
                                val |-> r.val]]
    /\ UNCHANGED <<cam, spc3, dev, active, last, logic, thr, lock>>

Vw_get_loaded_frame ==
    /\ active
    /\ \E frame_index \in FrameIndices :
          LET r == get_loaded_frame(io.loaded, frame_index)
          IN io' = [io EXCEPT !.loaded = r.loaded,
                              !.result = [call |-> "get_loaded_frame", kind |-> r.kind,
                                          val |-> r.val, arg |-> frame_index]]
    /\ UNCHANGED <<cam, spc3, dev, active, last, logic, thr, lock>>

Vw_get_loaded_frame_count ==
    /\ active
    /\ io' = [io EXCEPT !.result = [call |-> "get_loaded_frame_count", kind |-> "return",
                                    val |-> get_loaded_frame_count(io.loaded)]]
    /\ UNCHANGED <<cam, spc3, dev, active, last, logic, thr, lock>>

Vw_get_current_frame_index ==
    /\ active
    /\ io' = [io EXCEPT !.result = [call |-> "get_current_frame_index", kind |-> "return",
                                    val |-> get_current_frame_index(io.loaded)]]
    /\ UNCHANGED <<cam, spc3, dev, active, last, logic, thr, lock>>

InitView ==
    /\ InitObjects
    /\ cam.camera_mode = "Normal"
    /\ cam.NFrames = 1
    /\ io = InitIo

NextView ==
    \/ Hw_on_activate
    \/ Vw_load_acquisition_file
    \/ Vw_get_loaded_frame
    \/ Vw_get_loaded_frame_count
    \/ Vw_get_current_frame_index

SpecView == InitView /\ [][NextView]_vars

\* C35: whenever load_acquisition_file returns False, the loaded frames, the
\* header, the current frame index and the loaded file path are what they were
\* before the call
C35_FailedLoadChangesNothing ==
    [][(io'.result.call = "load_acquisition_file" /\ io'.result.val = FALSE)
         => io'.loaded = io.loaded]_vars

\* C36: whenever a file with at least one frame is loaded the current frame
\* index is within [0, frame count - 1]; get_loaded_frame returns a frame and
\* sets the index to its argument for 0 <= index < frame count, and returns
\* None leaving the index unchanged otherwise; a successful load resets the
\* index to 0
C36_FrameIndexInRange ==
    [][/\ get_loaded_frame_count(io'.loaded) >= 1 =>
             get_current_frame_index(io'.loaded) \in
                 0 .. get_loaded_frame_count(io'.loaded) - 1
       /\ io'.result.call = "get_loaded_frame" =>
             IF io'.result.arg \in 0 .. get_loaded_frame_count(io.loaded) - 1
             THEN /\ io'.result.kind = "frame"
                  /\ get_current_frame_index(io'.loaded) = io'.result.arg
             ELSE /\ io'.result.kind = "None"
                  /\ io'.loaded = io.loaded
       /\ (io'.result.call = "load_acquisition_file" /\ io'.result.val = TRUE) =>
             get_current_frame_index(io'.loaded) = 0]_vars

-----------------------------------------------------------------------------
(* SpecImg: the subtraction flag and the background reference *)

C37_EnabledHasReference ==
    cam.background_subtraction_enabled => cam.background_image # NoImage

C37_EnableNeedsReference ==
    (last'.op = "enable_background_subtraction" /\ cam.background_image = NoImage) =>
        (last'.val = "False" /\ ~cam'.background_subtraction_enabled)

C37_FailedCaptureKeepsReference ==
    (last'.op = "capture_background_image" /\ last'.val = "False") =>
        cam'.background_image = cam.background_image

\* C37: in every reachable state _background_subtraction_enabled implies that a
\* background reference has been captured; enable_background_subtraction before
\* any successful capture returns False and leaves subtraction disabled; a
\* failed capture_background_image leaves an earlier reference unchanged
C37_SubtractionOnlyWithReference ==
    /\ []C37_EnabledHasReference
    /\ [][C37_EnableNeedsReference /\ C37_FailedCaptureKeepsReference]_vars

\* a capture fails while subtraction is enabled with an earlier reference
C37_Witness ==
    /\ last.op = "capture_background_image" /\ last.val = "False"
    /\ cam.background_subtraction_enabled
    /\ cam.background_image # NoImage

-----------------------------------------------------------------------------
(* SpecLogicPar: the exposure CameraLogic keeps for its poll interval *)

\* C38: after each of CameraLogic.set_exposure, set_binning and set_integration
\* has completed in the idle state, CameraLogic._exposure equals
\* camera.get_exposure()
C38_CachedExposureCurrent ==
    (/\ last.op \in {"set_exposure", "set_binning", "set_integration"}
     /\ last.kind = "return"
     /\ logic.module_state = "idle")
        => logic.exposure = get_exposure(W0).w.cam.exposure

-----------------------------------------------------------------------------
(* SpecImg: the dimensions of what get_acquired_data returns *)

\* C39: get_acquired_data returns a two-dimensional image in every device
\* state, Idle as well as Live, with background subtraction enabled or disabled
\* and in both display units
C39_AcquiredDataIsImage ==
    (last.op = "get_acquired_data" /\ last.kind = "return") => dev.image.ndim = 2

====
